---- MODULE Spec2Model ----
(***************************************************************************)
(* Model of tcm-cli's plan executor (tcm/agent/executor.py) and of the     *)
(* Session's runtime tool-health tracker (tcm/agent/session.py).           *)
(*                                                                         *)
(* Python strings are sequences of one-character strings, so that          *)
(* startswith, split, replace and int() are computed as the code computes  *)
(* them.  JSON-like values are tagged records [kind, val]; a Python dict   *)
(* is a function whose domain is the set of its keys.                      *)
(***************************************************************************)
EXTENDS Integers, Sequences, FiniteSets, TLC

(***************************************************************************)
(* Bounds of the model.                                                    *)
(***************************************************************************)
\* longest previous_results list handed to _resolve_params in SpecResolve
MaxPrev == 2
\* plan steps handed to execute_plan over one session
MaxSteps == 2
\* clock advances between execute_plan calls over one session
MaxTicks == 1
\* clock advances between the Session's tool-health calls in SpecHealth
MaxElapse == 3
\* longest failure history a tool is let to accumulate
MaxHist == 2
\* the LLMClient objects a session builds
MaxClients == 2
\* the chat and stream calls of a session
MaxCalls == 1
\* usage records one UsageTracker is given
MaxRecords == 2

(***************************************************************************)
(* String literals of the source, as character sequences.                  *)
(***************************************************************************)
EmptyStr == << >>
s_step == <<"s","t","e","p">>
s_dollar_step == <<"$">> \o s_step
s_dot == <<".">>
s_status == <<"s","t","a","t","u","s">>
s_output == <<"o","u","t","p","u","t">>
s_error == <<"e","r","r","o","r">>
s_success == <<"s","u","c","c","e","s","s">>
s_tool == <<"t","o","o","l">>
s_purpose == <<"p","u","r","p","o","s","e">>
s_result == <<"r","e","s","u","l","t">>
s_llm_direct == <<"l","l","m","_","d","i","r","e","c","t">>
s_max_retries_exceeded == <<"M","a","x"," ","r","e","t","r","i","e","s"," ","e","x","c","e","e","d","e","d">>
s_targets == <<"t","a","r","g","e","t","s">>

(***************************************************************************)
(* JSON-like values.                                                       *)
(***************************************************************************)
JStr(s) == [kind |-> "str", val |-> s]
JInt(n) == [kind |-> "int", val |-> n]
JList(l) == [kind |-> "list", val |-> l]
JBool(b) == [kind |-> "bool", val |-> b]
JNone == [kind |-> "none", val |-> 0]
JDict(f) == [kind |-> "dict", val |-> f]

\* dict.get(key, default)
DictGet(d, key, default) == IF key \in DOMAIN d THEN d[key] ELSE default

\* dict.pop(key, None): the dict without the key
DictPop(d, key) == [k \in DOMAIN d \ {key} |-> d[k]]

\* d[key] = v
DictSet(d, key, v) == [k \in DOMAIN d \cup {key} |-> IF k = key THEN v ELSE d[k]]

EmptyDict == [k \in {} |-> 0]

(***************************************************************************)
(* Python string operations used by _resolve_params.                       *)
(***************************************************************************)
\* str.startswith(prefix)
StartsWith(s, prefix) ==
  /\ Len(s) >= Len(prefix)
  /\ SubSeq(s, 1, Len(prefix)) = prefix

\* s[n:]
Drop(s, n) == SubSeq(s, n + 1, Len(s))

RECURSIVE SplitFrom(_, _, _)
\* str.split(sep) for a one-character separator: `cur` is the part being read
SplitFrom(s, sep, cur) ==
  IF s = << >> THEN <<cur>>
  ELSE IF Head(s) = sep THEN <<cur>> \o SplitFrom(Tail(s), sep, << >>)
  ELSE SplitFrom(Tail(s), sep, Append(cur, Head(s)))

Split(s, sep) == SplitFrom(s, sep, << >>)

RECURSIVE RemoveAll(_, _)
\* str.replace(old, ""): every non-overlapping occurrence, left to right
RemoveAll(s, old) ==
  IF Len(s) < Len(old) THEN s
  ELSE IF StartsWith(s, old) THEN RemoveAll(Drop(s, Len(old)), old)
  ELSE <<Head(s)>> \o RemoveAll(Tail(s), old)

Digits == {"0","1","2","3","4","5","6","7","8","9"}

DigitVal(c) ==
  CASE c = "0" -> 0 [] c = "1" -> 1 [] c = "2" -> 2 [] c = "3" -> 3 [] c = "4" -> 4
    [] c = "5" -> 5 [] c = "6" -> 6 [] c = "7" -> 7 [] c = "8" -> 8 [] c = "9" -> 9

RECURSIVE LStrip(_)
LStrip(s) == IF s # << >> /\ Head(s) = " " THEN LStrip(Tail(s)) ELSE s

RECURSIVE RStrip(_)
RStrip(s) == IF s # << >> /\ s[Len(s)] = " " THEN RStrip(SubSeq(s, 1, Len(s) - 1)) ELSE s

\* the digits of an int() literal after its whitespace and sign are removed
IntBody(s) ==
  LET t == RStrip(LStrip(s))
  IN IF t # << >> /\ Head(t) \in {"+", "-"} THEN Tail(t) ELSE t

\* int(s) does not raise ValueError
IntOk(s) ==
  /\ IntBody(s) # << >>
  /\ \A i \in 1..Len(IntBody(s)) : IntBody(s)[i] \in Digits

RECURSIVE DigitsVal(_)
DigitsVal(d) ==
  IF d = << >> THEN 0
  ELSE 10 * DigitsVal(SubSeq(d, 1, Len(d) - 1)) + DigitVal(d[Len(d)])

\* int(s), for IntOk(s)
IntVal(s) ==
  LET t == RStrip(LStrip(s))
  IN IF Head(t) = "-" THEN 0 - DigitsVal(IntBody(s)) ELSE DigitsVal(IntBody(s))

(***************************************************************************)
(* executor._resolve_params                                                *)
(***************************************************************************)
RECURSIVE WalkPath(_, _, _)
\* the loop `for part in parts[1:]` over obj, with the literal as the fallback
WalkPath(obj, parts, value) ==
  IF parts = << >> THEN obj
  ELSE IF obj.kind = "dict"
       THEN WalkPath(DictGet(obj.val, Head(parts), value), Tail(parts), value)
       ELSE value

\* the 0-based index int(parts[0].replace("step", "")) - 1 is read from
StepRefText(value) == RemoveAll(Split(Drop(value.val, 1), ".")[1], s_step)

IsReference(value) == value.kind = "str" /\ StartsWith(value.val, s_dollar_step)

\* the reference's number taken as a 0-based index
StepRef_zeroBased(value) == IntVal(StepRefText(value))

\* step_ref = int(parts[0].replace("step", "")) - 1, when int() does not raise
StepRef(value) == IntVal(StepRefText(value)) - 1

\* the value one parameter resolves to
ResolveValue(value, previous_results) ==
  IF IsReference(value)
  THEN LET parts == Split(Drop(value.val, 1), ".")
       IN IF ~IntOk(StepRefText(value)) THEN value
          ELSE LET step_ref == StepRef(value)
               IN IF 0 <= step_ref /\ step_ref < Len(previous_results)
                  THEN WalkPath(previous_results[step_ref + 1], Tail(parts), value)
                  ELSE value
  ELSE value

_resolve_params(parameters, previous_results) ==
  [key \in DOMAIN parameters |-> ResolveValue(parameters[key], previous_results)]

(***************************************************************************)
(* State.                                                                  *)
(***************************************************************************)
VARIABLES
  config,                          \* Config._data of session.config
  now,                             \* time.time(), in seconds
  _tool_health_failures,           \* Session._tool_health_failures
  _tool_health_suppressed_until,   \* Session._tool_health_suppressed_until
  lastOp,                          \* the last Session tool-health call: its name, its
                                   \* arguments and what it returned
  trigger,                         \* per tool: when the failure that suppressed it was recorded,
                                   \* while nothing was recorded for the tool since
  transientSeen,                   \* the tools a transient failure was ever recorded for
  pc,                              \* where execute_plan stands: idle, loop, retry, done, raised
  plan,                            \* the plan execute_plan was called with
  max_retries,                     \* execute_plan's local max_retries
  results,                         \* execute_plan's local results list
  idx,                             \* 1-based position in steps of the step being processed
  attempt,                         \* _execute_with_retry's loop variable
  resolved_params,                 \* the parameters handed to _execute_with_retry
  returned,                        \* the list execute_plan returned
  log,                             \* tool.run calls and sleeps of the step being processed
  stepsRun,                        \* plan steps handed to execute_plan so far
  callValue,                       \* SpecResolve: the parameter value given to _resolve_params
  callPrev,                        \* SpecResolve: the previous_results given to it
  callOut,                         \* SpecResolve: the resolved value, once computed
  _llm,                            \* Session._llm: the cached client's index in clients, 0 for None
  clients,                         \* the LLMClient objects built so far, in order of creation
  llmOp,                           \* the last call on the session's LLM side and its outcome
  llmCalls                         \* chat and stream calls made so far

healthVars == <<_tool_health_failures, _tool_health_suppressed_until>>
sessionVars == <<config, now, _tool_health_failures, _tool_health_suppressed_until, lastOp,
                 trigger, transientSeen>>
execVars == <<pc, plan, max_retries, results, idx, attempt, resolved_params, returned, log,
              stepsRun>>
resolveVars == <<callValue, callPrev, callOut>>
llmVars == <<_llm, clients, llmOp, llmCalls>>
vars == <<sessionVars, execVars, resolveVars, llmVars>>

(***************************************************************************)
(* Config (tcm/agent/config.py).                                           *)
(***************************************************************************)
DEFAULTS ==
  [ executor_max_retries |-> JInt(2),
    tool_health_enabled |-> JBool(TRUE),
    tool_health_fail_threshold |-> JInt(2),
    tool_health_failure_window_s |-> JInt(1800),
    tool_health_suppress_seconds |-> JInt(900) ]
  @@ ("llm.provider" :> JStr(<<"a","n","t","h","r","o","p","i","c">>))
  @@ ("llm.model" :> JStr(<<"c","l","a","u","d","e","-","s","o","n","n","e","t","-","4","-","5","-","2","0","2","5","0","9","2","9">>))
  @@ ("llm.api_key" :> JNone)
  @@ ("llm.openai_api_key" :> JNone)
  @@ ("llm.google_api_key" :> JNone)

\* Config.get(key, default): the stored value, else DEFAULTS, else the default
ConfigGet(key, default) ==
  IF key \in DOMAIN config THEN config[key]
  ELSE IF key \in DOMAIN DEFAULTS THEN DEFAULTS[key]
  ELSE default

Max(a, b) == IF a >= b THEN a ELSE b

\* int(v) raises: ValueError for a string that is no integer, TypeError for None
int_raises(v) ==
  ~(v.kind \in {"int", "bool"} \/ (v.kind = "str" /\ IntOk(v.val)))

\* int(v), when it does not raise
int(v) ==
  CASE v.kind = "int" -> v.val
    [] v.kind = "bool" -> (IF v.val THEN 1 ELSE 0)
    [] v.kind = "str" -> IntVal(v.val)

\* bool(v)
bool(v) ==
  CASE v.kind = "bool" -> v.val
    [] v.kind = "int" -> v.val # 0
    [] v.kind = "str" -> v.val # << >>
    [] v.kind = "none" -> FALSE
    [] v.kind = "dict" -> DOMAIN v.val # {}

(***************************************************************************)
(* Session: runtime tool-health tracking (tcm/agent/session.py).           *)
(***************************************************************************)
UpperCase == <<"A","B","C","D","E","F","G","H","I","J","K","L","M","N","O","P","Q","R","S","T","U","V","W","X","Y","Z">>
LowerCase == <<"a","b","c","d","e","f","g","h","i","j","k","l","m","n","o","p","q","r","s","t","u","v","w","x","y","z">>

LowerMap ==
  [c \in {UpperCase[j] : j \in 1..Len(UpperCase)} |->
     LowerCase[CHOOSE j \in 1..Len(UpperCase) : UpperCase[j] = c]]

LowerChar(c) == IF c \in DOMAIN LowerMap THEN LowerMap[c] ELSE c

\* str.lower()
Lower(s) == [i \in 1..Len(s) |-> LowerChar(s[i])]

\* `marker in text`
Contains(text, marker) ==
  \E i \in 1..(Len(text) - Len(marker) + 1) :
    \A j \in 1..Len(marker) : text[i + j - 1] = marker[j]

transient_markers ==
  { <<"t","i","m","e","o","u","t">>,
    <<"t","i","m","e","d"," ","o","u","t">>,
    <<"c","o","n","n","e","c","t","i","o","n">>,
    <<"d","n","s">>,
    <<"s","e","r","v","i","c","e"," ","u","n","a","v","a","i","l","a","b","l","e">>,
    <<"r","a","t","e"," ","l","i","m","i","t">>,
    <<"4","2","9">>,
    <<"5","0","0">>,
    <<"5","0","2">>,
    <<"5","0","3">>,
    <<"5","0","4">> }

\* a switch that is always on
_tool_health_enabled_always == TRUE

\* Session._tool_health_enabled()
_tool_health_enabled == bool(ConfigGet("tool_health_enabled", JBool(TRUE)))

\* a classifier for which every error is transient
_is_transient_tool_error_any(error_text) == TRUE

_is_transient_tool_error(error_text) ==
  LET text == Lower(error_text)
  IN \E marker \in transient_markers : Contains(text, marker)

window_s == Max(60, int(ConfigGet("tool_health_failure_window_s", JInt(1800))))
\* a threshold one above the configured one
threshold_plusOne == Max(1, int(ConfigGet("tool_health_fail_threshold", JInt(2)))) + 1

threshold == Max(1, int(ConfigGet("tool_health_fail_threshold", JInt(2))))
suppress_s == Max(60, int(ConfigGet("tool_health_suppress_seconds", JInt(900))))

\* lines 103-105 raise: one of the three settings cannot be converted by int()
settings_raise ==
  \/ int_raises(ConfigGet("tool_health_failure_window_s", JInt(1800)))
  \/ int_raises(ConfigGet("tool_health_fail_threshold", JInt(2)))
  \/ int_raises(ConfigGet("tool_health_suppress_seconds", JInt(900)))

\* record_tool_failure(tool_name, error_text) raises instead of returning
record_tool_failure_raises(tool_name, error_text) ==
  /\ _tool_health_enabled
  /\ tool_name # EmptyStr
  /\ _is_transient_tool_error(error_text)
  /\ settings_raise

Health(f, u) == [failures |-> f, suppressed_until |-> u]

\* record_tool_success that forgets to drop the failure history
record_tool_success_keepsHistory(tool_name) ==
  IF tool_name = EmptyStr
  THEN Health(_tool_health_failures, _tool_health_suppressed_until)
  ELSE Health(_tool_health_failures, DictPop(_tool_health_suppressed_until, tool_name))

\* the two maps after record_tool_success(tool_name)
record_tool_success(tool_name) ==
  IF tool_name = EmptyStr
  THEN Health(_tool_health_failures, _tool_health_suppressed_until)
  ELSE Health(DictPop(_tool_health_failures, tool_name),
              DictPop(_tool_health_suppressed_until, tool_name))

\* the pruned history of tool_name with `now` appended
NewHistory(tool_name) ==
  Append(SelectSeq(DictGet(_tool_health_failures, tool_name, << >>),
                   LAMBDA t : now - t <= window_s),
         now)

\* record_tool_failure that suppresses only above the threshold
record_tool_failure_aboveThreshold(tool_name, error_text) ==
  IF ~_tool_health_enabled \/ tool_name = EmptyStr
  THEN Health(_tool_health_failures, _tool_health_suppressed_until)
  ELSE IF ~_is_transient_tool_error(error_text) \/ settings_raise
  THEN Health(_tool_health_failures, _tool_health_suppressed_until)
  ELSE Health(DictSet(_tool_health_failures, tool_name, NewHistory(tool_name)),
              IF Len(NewHistory(tool_name)) > threshold
              THEN DictSet(_tool_health_suppressed_until, tool_name, now + suppress_s)
              ELSE _tool_health_suppressed_until)

\* the two maps after record_tool_failure(tool_name, error_text)
record_tool_failure(tool_name, error_text) ==
  IF ~_tool_health_enabled \/ tool_name = EmptyStr
  THEN Health(_tool_health_failures, _tool_health_suppressed_until)
  ELSE IF ~_is_transient_tool_error(error_text) \/ settings_raise
  THEN Health(_tool_health_failures, _tool_health_suppressed_until)
  ELSE Health(DictSet(_tool_health_failures, tool_name, NewHistory(tool_name)),
              IF Len(NewHistory(tool_name)) >= threshold
              THEN DictSet(_tool_health_suppressed_until, tool_name, now + suppress_s)
              ELSE _tool_health_suppressed_until)

\* a suppressed set that never looks at the clock
SuppressedNow_ignoresClock ==
  IF ~_tool_health_enabled THEN {}
  ELSE DOMAIN _tool_health_suppressed_until

\* the set tool_health_suppressed_tools() returns
SuppressedNow ==
  IF ~_tool_health_enabled THEN {}
  ELSE {name \in DOMAIN _tool_health_suppressed_until :
          now < _tool_health_suppressed_until[name]}

\* the entries tool_health_suppressed_tools() finds expired
Expired ==
  IF ~_tool_health_enabled THEN {}
  ELSE {name \in DOMAIN _tool_health_suppressed_until :
          ~(now < _tool_health_suppressed_until[name])}

\* a read that drops the expired deadlines and keeps the failure histories
tool_health_suppressed_tools_keepsHistory ==
  Health(_tool_health_failures,
         [name \in DOMAIN _tool_health_suppressed_until \ Expired |->
            _tool_health_suppressed_until[name]])

\* the two maps after tool_health_suppressed_tools()
tool_health_suppressed_tools ==
  Health([name \in DOMAIN _tool_health_failures \ Expired |-> _tool_health_failures[name]],
         [name \in DOMAIN _tool_health_suppressed_until \ Expired |->
            _tool_health_suppressed_until[name]])


(***************************************************************************)
(* The clock, and the Session's tool-health methods called directly.       *)
(***************************************************************************)
TickValues == {60}
ElapseValues == {30}

ToolX == <<"X">>
ToolY == <<"Y">>
ToolZ == <<"Z">>

\* ToolRegistry._tools: the names that are registered
RegisteredTools == {ToolX, ToolY}

e_timeout == <<"T","i","m","e","o","u","t">>
e_http503 == <<"H","T","T","P"," ","5","0","3">>
e_invalid == <<"i","n","v","a","l","i","d"," ","p","a","r","a","m","e","t","e","r">>

\* str(e) of the exceptions a tool function raises
ToolErrors == {e_timeout, e_invalid}

\* the error_text arguments of record_tool_failure
ErrorTexts == ToolErrors \cup {e_http503}

\* a call, its arguments, and the set it returned (empty for the calls that return None)
Op(name, tool, err, ret) == [op |-> name, tool |-> tool, err |-> err, ret |-> ret]

NoOp == Op("none", EmptyStr, EmptyStr, {})

\* the failures of tool_name on record that are at most window_s old
InWindow(tool_name) ==
  {i \in 1..Len(DictGet(_tool_health_failures, tool_name, << >>)) :
     now - _tool_health_failures[tool_name][i] <= window_s}

\* an error text with a transient marker in it, whatever its case
HasMarker(error_text) ==
  \E m \in transient_markers :
    \E i \in 1..Len(error_text) :
      /\ i + Len(m) - 1 <= Len(error_text)
      /\ \A j \in 1..Len(m) : LowerChar(error_text[i + j - 1]) = m[j]

\* a failure that counts and is the threshold-th of the tool within the window
Triggers(tool_name, error_text) ==
  /\ _tool_health_enabled
  /\ tool_name # EmptyStr
  /\ HasMarker(error_text)
  /\ Cardinality(InWindow(tool_name)) >= threshold - 1

\* a failure that is recorded: it counts toward suppression
Counts(tool_name, error_text) ==
  _tool_health_enabled /\ tool_name # EmptyStr /\ HasMarker(error_text)

ObserveFailure(tool_name, error_text) ==
  /\ trigger' = IF Triggers(tool_name, error_text)
                THEN DictSet(trigger, tool_name, now)
                ELSE IF Counts(tool_name, error_text)
                THEN DictPop(trigger, tool_name)
                ELSE trigger
  /\ transientSeen' = IF HasMarker(error_text) /\ tool_name # EmptyStr
                      THEN transientSeen \cup {tool_name}
                      ELSE transientSeen

ObserveSuccess(tool_name) ==
  /\ trigger' = DictPop(trigger, tool_name)
  /\ UNCHANGED transientSeen

\* time passes between two calls (the clock starts with the session's first call)
Tick(d) ==
  /\ pc = "idle"
  /\ stepsRun > 0 \/ lastOp # NoOp
  /\ now + d <= MaxTicks * d
  /\ now' = now + d
  /\ lastOp' = Op("sleep", EmptyStr, EmptyStr, {})
  /\ UNCHANGED <<config, healthVars, trigger, transientSeen, execVars, resolveVars, llmVars>>

\* time passes between two calls of the Session's tool-health methods
Elapse(d) ==
  /\ pc = "idle"
  /\ lastOp # NoOp
  /\ now + d <= MaxElapse * d
  /\ now' = now + d
  /\ lastOp' = Op("sleep", EmptyStr, EmptyStr, {})
  /\ UNCHANGED <<config, healthVars, trigger, transientSeen, execVars, resolveVars, llmVars>>

SetHealth(h) ==
  /\ _tool_health_failures' = h.failures
  /\ _tool_health_suppressed_until' = h.suppressed_until

\* Config._data of a session whose failure window (120 s) outlasts its
\* suppression time (60 s); its histories are followed one failure further
ReadConfigs ==
  { [tool_health_fail_threshold |-> JInt(2), tool_health_failure_window_s |-> JInt(120),
     tool_health_suppress_seconds |-> JInt(60)] }

\* the longest failure history the model follows
HistBound == IF config \in ReadConfigs THEN MaxHist + 1 ELSE MaxHist

\* session.record_tool_failure(tool_name, error_text)
CallRecordFailure(tool_name, error_text) ==
  /\ pc = "idle"
  /\ Len(DictGet(_tool_health_failures, tool_name, << >>)) < HistBound
  /\ SetHealth(record_tool_failure(tool_name, error_text))
  /\ lastOp' = Op("record_tool_failure", tool_name, error_text, {})
  /\ ObserveFailure(tool_name, error_text)
  /\ UNCHANGED <<config, now, execVars, resolveVars, llmVars>>

\* session.record_tool_success(tool_name)
CallRecordSuccess(tool_name) ==
  /\ pc = "idle"
  /\ SetHealth(record_tool_success(tool_name))
  /\ lastOp' = Op("record_tool_success", tool_name, EmptyStr, {})
  /\ ObserveSuccess(tool_name)
  /\ UNCHANGED <<config, now, execVars, resolveVars, llmVars>>

\* a catalog that lists every registered tool
tool_descriptions_for_llm_all(exclude_tools) == RegisteredTools

\* registry.tool_descriptions_for_llm(exclude_tools=...): the names of the tools the
\* catalog text lists
tool_descriptions_for_llm(exclude_tools) ==
  {name \in RegisteredTools : name \notin exclude_tools}

\* create_plan, lines 50-53: the catalog built from the set the session has just
\* returned
tool_catalog == tool_descriptions_for_llm(lastOp.ret)

\* session.tool_health_suppressed_tools(), as create_plan calls it before planning
CallSuppressedTools ==
  /\ pc = "idle"
  /\ SetHealth(tool_health_suppressed_tools)
  /\ lastOp' = Op("tool_health_suppressed_tools", EmptyStr, EmptyStr, SuppressedNow)
  /\ UNCHANGED <<config, now, trigger, transientSeen, execVars, resolveVars, llmVars>>

(***************************************************************************)
(* execute_plan (tcm/agent/executor.py).                                   *)
(***************************************************************************)
ParamLiteral == JStr(<<"a">>)
ParamRef == JStr(s_dollar_step \o <<"1">> \o s_dot \o s_output \o s_dot \o s_targets)

Purpose == <<"p">>

\* the steps plans are made of: a step with no "step" label, a step whose label is
\* not its position, a step naming an unregistered tool, a step with no "tool"
StepChoices ==
  { [tool |-> ToolX, parameters |-> [q |-> ParamLiteral], purpose |-> Purpose],
    [step |-> 7, tool |-> ToolY, parameters |-> [q |-> ParamRef], purpose |-> Purpose],
    [step |-> 1, tool |-> ToolZ, parameters |-> [q |-> ParamRef], purpose |-> Purpose],
    [purpose |-> Purpose] }

Reasoning == <<"w","h","y">>

StepLists == UNION {[1..n -> StepChoices] : n \in 0..MaxSteps}

\* the plans execute_plan is called with: with and without "reasoning" and "steps"
Plans ==
  {[reasoning |-> Reasoning, steps |-> l] : l \in StepLists}
    \cup {[reasoning |-> Reasoning], [steps |-> << >>]}

s_message == <<"m","e","s","s","a","g","e">>
s_lookup_failed == <<"U","n","i","P","r","o","t"," ","l","o","o","k","u","p"," ",
                     "f","a","i","l","e","d",":"," ">>

\* uniprot_lookup when httpx.get or raise_for_status raises an exception whose str() is
\* e: the except clause returns a mapping (kegg_pathway, string_interactions and
\* pubmed_search do the same with their own message prefix)
uniprot_lookup_except(e) ==
  JDict((s_status :> JStr(s_error)) @@ (s_message :> JStr(s_lookup_failed \o e)))

\* the values a tool function returns
ToolOutputs ==
  { JDict(s_targets :> JList(<<JStr(<<"A">>), JStr(<<"B">>)>>)),
    JStr(<<"o","k">>),
    uniprot_lookup_except(e_timeout) }

steps == DictGet(plan, "steps", << >>)

step == steps[idx]
step_num == DictGet(step, "step", Len(results) + 1)
tool_name == DictGet(step, "tool", EmptyStr)
parameters == DictGet(step, "parameters", EmptyDict)
purpose == DictGet(step, "purpose", EmptyStr)

\* registry.get_tool(name) finds a tool
get_tool(name) == name \in RegisteredTools

\* the empty plan's result with the reasoning left out
DirectResult_noReasoning(p) ==
  JDict((s_step :> JInt(0)) @@ (s_tool :> JStr(s_llm_direct))
        @@ (s_result :> JStr(EmptyStr))
        @@ (s_status :> JStr(s_success)))

\* the result of the empty plan
DirectResult(p) ==
  JDict((s_step :> JInt(0)) @@ (s_tool :> JStr(s_llm_direct))
        @@ (s_result :> JStr(DictGet(p, "reasoning", EmptyStr)))
        @@ (s_status :> JStr(s_success)))

\* the result of a step whose tool is not registered, the tool's name left out of
\* the message
NotFoundResult_noName ==
  JDict((s_step :> JInt(step_num)) @@ (s_tool :> JStr(tool_name))
        @@ (s_status :> JStr(s_error))
        @@ (s_error :> JStr(<<"T","o","o","l"," ","n","o","t"," ","f","o","u","n","d",".">>)))

\* the result of a step whose tool is not registered
NotFoundResult ==
  JDict((s_step :> JInt(step_num)) @@ (s_tool :> JStr(tool_name))
        @@ (s_status :> JStr(s_error))
        @@ (s_error :> JStr(<<"T","o","o","l"," ","'">> \o tool_name
                             \o <<"'"," ","n","o","t"," ","f","o","u","n","d",".">>)))

\* what _execute_with_retry returns
\* a success result that takes over the status of a mapping the tool returned
SuccessResult_outputStatus(output) ==
  (s_status :> IF output.kind = "dict" /\ s_status \in DOMAIN output.val
               THEN output.val[s_status] ELSE JStr(s_success))
  @@ (s_output :> output)

SuccessResult(output) == (s_status :> JStr(s_success)) @@ (s_output :> output)
ErrorResult(error_text) == (s_status :> JStr(s_error)) @@ (s_error :> JStr(error_text))

\* lines 64-66: the returned dict with step, tool and purpose set
StepResult(result) ==
  JDict((s_step :> JInt(step_num)) @@ (s_tool :> JStr(tool_name))
        @@ (s_purpose :> JStr(purpose)) @@ result)

RunEvent(raised, val) ==
  [ev |-> "run", pos |-> idx, attempt |-> attempt, params |-> resolved_params,
   raised |-> raised, val |-> val]

\* a backoff of two seconds
SleepEvent_two ==
  [ev |-> "sleep", pos |-> idx, attempt |-> attempt, params |-> resolved_params,
   raised |-> FALSE, val |-> JInt(2)]

\* line 92: time.sleep(1)
SleepEvent ==
  [ev |-> "sleep", pos |-> idx, attempt |-> attempt, params |-> resolved_params,
   raised |-> FALSE, val |-> JInt(1)]

\* execute_plan(session, p) is called
StartPlan(p) ==
  /\ pc = "idle"
  /\ stepsRun + Len(DictGet(p, "steps", << >>)) <= MaxSteps
  /\ plan' = p
  /\ stepsRun' = stepsRun + Len(DictGet(p, "steps", << >>))
  /\ results' = << >>
  /\ log' = << >>
  /\ idx' = 1
  /\ attempt' = 0
  /\ resolved_params' = EmptyDict
  /\ IF DictGet(p, "steps", << >>) = << >>
     THEN /\ returned' = <<DirectResult(p)>>
          /\ pc' = "done"
          /\ UNCHANGED max_retries
     ELSE /\ returned' = << >>
          /\ pc' = "loop"
          /\ max_retries' = int(ConfigGet("executor_max_retries", JInt(2)))
  /\ UNCHANGED <<sessionVars, resolveVars, llmVars>>

\* the for loop is over: return results
ReturnResults ==
  /\ pc = "loop"
  /\ idx > Len(steps)
  /\ returned' = results
  /\ pc' = "done"
  /\ UNCHANGED <<plan, max_retries, results, idx, attempt, resolved_params, log,
                 stepsRun, sessionVars, resolveVars, llmVars>>

\* an unregistered tool's step skipped without a result
ToolNotFound_noResult ==
  /\ pc = "loop"
  /\ idx <= Len(steps)
  /\ ~get_tool(tool_name)
  /\ idx' = idx + 1
  /\ log' = << >>
  /\ UNCHANGED <<pc, plan, max_retries, results, attempt, resolved_params, returned,
                 stepsRun, sessionVars, resolveVars, llmVars>>

\* lines 48-57: the step's tool is not in the registry
ToolNotFound ==
  /\ pc = "loop"
  /\ idx <= Len(steps)
  /\ ~get_tool(tool_name)
  /\ results' = Append(results, NotFoundResult)
  /\ idx' = idx + 1
  /\ log' = << >>
  /\ UNCHANGED <<pc, plan, max_retries, attempt, resolved_params, returned,
                 stepsRun, sessionVars, resolveVars, llmVars>>

\* lines 59-63: resolve the parameters and enter _execute_with_retry
ResolveStep ==
  /\ pc = "loop"
  /\ idx <= Len(steps)
  /\ get_tool(tool_name)
  /\ resolved_params' = _resolve_params(parameters, results)
  /\ attempt' = 1
  /\ log' = << >>
  /\ pc' = "retry"
  /\ UNCHANGED <<plan, max_retries, results, idx, returned,
                 stepsRun, sessionVars, resolveVars, llmVars>>

\* lines 82-84: tool.run returns output
AttemptSuccess(output) ==
  /\ pc = "retry"
  /\ attempt <= max_retries
  /\ log' = Append(log, RunEvent(FALSE, output))
  /\ SetHealth(record_tool_success(tool_name))
  /\ lastOp' = Op("record_tool_success", tool_name, EmptyStr, {})
  /\ ObserveSuccess(tool_name)
  /\ results' = Append(results, StepResult(SuccessResult(output)))
  /\ idx' = idx + 1
  /\ pc' = "loop"
  /\ UNCHANGED <<plan, max_retries, attempt, resolved_params, returned,
                 stepsRun, config, now, resolveVars, llmVars>>

\* the retry loop giving up one attempt early
LastAttempt_early == attempt + 1 >= max_retries

\* line 90: no attempt is left
LastAttempt == attempt >= max_retries

\* lines 85-92: tool.run raises an exception whose str() is error_text
AttemptFailure(error_text) ==
  /\ pc = "retry"
  /\ attempt <= max_retries
  /\ SetHealth(record_tool_failure(tool_name, error_text))
  /\ lastOp' = Op("record_tool_failure", tool_name, error_text, {})
  /\ IF record_tool_failure_raises(tool_name, error_text)
     THEN \* the exception leaves the except block, _execute_with_retry and execute_plan
          /\ log' = Append(log, RunEvent(TRUE, JStr(error_text)))
          /\ pc' = "raised"
          /\ UNCHANGED <<trigger, transientSeen, results, idx, attempt, now>>
     ELSE /\ ObserveFailure(tool_name, error_text)
          /\ IF LastAttempt
             THEN /\ log' = Append(log, RunEvent(TRUE, JStr(error_text)))
                  /\ results' = Append(results, StepResult(ErrorResult(error_text)))
                  /\ idx' = idx + 1
                  /\ pc' = "loop"
                  /\ UNCHANGED <<attempt, now>>
             ELSE /\ log' = log \o <<RunEvent(TRUE, JStr(error_text)), SleepEvent>>
                  /\ now' = now + 1
                  /\ attempt' = attempt + 1
                  /\ UNCHANGED <<results, idx, pc>>
  /\ UNCHANGED <<plan, max_retries, resolved_params, returned,
                 stepsRun, config, resolveVars, llmVars>>

\* line 94: the retry loop ends without having returned
RetriesExceeded ==
  /\ pc = "retry"
  /\ attempt > max_retries
  /\ results' = Append(results, StepResult(ErrorResult(s_max_retries_exceeded)))
  /\ idx' = idx + 1
  /\ pc' = "loop"
  /\ UNCHANGED <<plan, max_retries, attempt, resolved_params, returned, log,
                 stepsRun, sessionVars, resolveVars, llmVars>>

(***************************************************************************)
(* Specifications.                                                         *)
(***************************************************************************)
ExecIdle ==
  /\ pc = "idle"
  /\ plan = EmptyDict
  /\ max_retries = 0
  /\ results = << >>
  /\ idx = 1
  /\ attempt = 0
  /\ resolved_params = EmptyDict
  /\ returned = << >>
  /\ log = << >>

\* the caller is done with the returned list: plan and results are discarded
Discard ==
  /\ pc = "done"
  /\ pc' = "idle"
  /\ plan' = EmptyDict
  /\ max_retries' = 0
  /\ results' = << >>
  /\ idx' = 1
  /\ attempt' = 0
  /\ resolved_params' = EmptyDict
  /\ returned' = << >>
  /\ log' = << >>
  /\ UNCHANGED <<stepsRun, sessionVars, resolveVars, llmVars>>

InitExec ==
  /\ ExecIdle
  /\ stepsRun = 0

InitHealth ==
  /\ now = 0
  /\ _tool_health_failures = EmptyDict
  /\ _tool_health_suppressed_until = EmptyDict
  /\ lastOp = NoOp
  /\ trigger = EmptyDict
  /\ transientSeen = {}

InitResolve ==
  /\ callValue = JStr(EmptyStr)
  /\ callPrev = << >>
  /\ callOut = <<"none">>

\* no response, no error
NoOut == [kind |-> "none", err |-> EmptyStr, content |-> EmptyStr, usage |-> JNone]

\* a call on the LLM side: its name, its arguments, the provider's behaviour during it,
\* the attempts and sleeps it made, how it ended, and the client it used or returned
LLMOp(name, model, provider, script, events, out, client) ==
  [op |-> name, model |-> model, provider |-> provider, script |-> script,
   log |-> events, out |-> out, client |-> client]

NoLLMOp == LLMOp("none", JNone, JNone, << >>, << >>, NoOut, 0)

\* Session.__init__: no client yet
InitLLM ==
  /\ _llm = 0
  /\ clients = << >>
  /\ llmOp = NoLLMOp
  /\ llmCalls = 0

\* Config._data of the sessions execute_plan runs in
ExecConfigs ==
  { EmptyDict,
    [executor_max_retries |-> JInt(1)],
    [executor_max_retries |-> JInt(0)],
    [executor_max_retries |-> JInt(0 - 1)],
    [tool_health_fail_threshold |-> JInt(1), tool_health_failure_window_s |-> JInt(0),
     tool_health_suppress_seconds |-> JInt(0)],
    [tool_health_failure_window_s |-> JStr(<<"3","0","m">>)] }

Init ==
  /\ config \in ExecConfigs
  /\ InitHealth
  /\ InitExec
  /\ InitResolve
  /\ InitLLM

Next ==
  \/ \E p \in Plans : StartPlan(p)
  \/ ReturnResults
  \/ ToolNotFound
  \/ ResolveStep
  \/ \E output \in ToolOutputs : AttemptSuccess(output)
  \/ \E error_text \in ToolErrors : AttemptFailure(error_text)
  \/ RetriesExceeded
  \/ Discard
  \/ CallSuppressedTools
  \/ \E d \in TickValues : Tick(d)

Spec == Init /\ [][Next]_vars


(***************************************************************************)
(* SpecHealth: the Session's tool-health methods called in any order.      *)
(***************************************************************************)
\* the tool_name arguments of the Session's tool-health methods
ToolNames == RegisteredTools \cup {EmptyStr}

\* Config._data of the sessions whose tool health is exercised
HealthConfigs ==
  { [tool_health_fail_threshold |-> JInt(0), tool_health_failure_window_s |-> JInt(0),
     tool_health_suppress_seconds |-> JInt(0)],
    [tool_health_fail_threshold |-> JInt(2), tool_health_failure_window_s |-> JInt(90),
     tool_health_suppress_seconds |-> JInt(60)],
    [tool_health_fail_threshold |-> JStr(<<"2">>),
     tool_health_failure_window_s |-> JInt(60),
     tool_health_suppress_seconds |-> JInt(90)],
    [tool_health_enabled |-> JBool(FALSE)] }

InitHealthSpec ==
  /\ config \in HealthConfigs
  /\ InitHealth
  /\ InitExec
  /\ InitResolve
  /\ InitLLM

NextHealth ==
  \/ \E t \in ToolNames, e \in ErrorTexts : CallRecordFailure(t, e)
  \/ \E t \in ToolNames : CallRecordSuccess(t)
  \/ CallSuppressedTools
  \/ \E d \in ElapseValues : Elapse(d)

SpecHealth == InitHealthSpec /\ [][NextHealth]_vars

(***************************************************************************)
(* SpecWindow: the tool-health methods of a Session whose failure window   *)
(* is shorter than its suppression time.                                   *)
(***************************************************************************)
\* Config._data of the session: two failures within 60 s suppress for 120 s
WindowConfigs ==
  { [tool_health_fail_threshold |-> JInt(2), tool_health_failure_window_s |-> JInt(60),
     tool_health_suppress_seconds |-> JInt(120)] }

InitWindowSpec ==
  /\ config \in WindowConfigs
  /\ InitHealth
  /\ InitExec
  /\ InitResolve
  /\ InitLLM

SpecWindow == InitWindowSpec /\ [][NextHealth]_vars

(***************************************************************************)
(* SpecRead: the tool-health methods of a Session whose failure window     *)
(* outlasts its suppression time, so that failures are still inside the    *)
(* window when a deadline lapses.                                          *)
(***************************************************************************)
InitReadSpec ==
  /\ config \in ReadConfigs
  /\ InitHealth
  /\ InitExec
  /\ InitResolve
  /\ InitLLM

SpecRead == InitReadSpec /\ [][NextHealth]_vars

(***************************************************************************)
(* SpecSwitch: the tool-health methods of a Session whose                  *)
(* agent.tool_health_enabled setting is changed while the session runs.    *)
(***************************************************************************)
\* the values the setting is given: False and True, and the text "false" that
\* `tcm config set agent.tool_health_enabled false` stores
EnabledValues == {JBool(FALSE), JBool(TRUE), JStr(<<"f","a","l","s","e">>)}

\* session.config.set("agent.tool_health_enabled", value)
ConfigSetEnabled(value) ==
  /\ pc = "idle"
  /\ ConfigGet("tool_health_enabled", JBool(TRUE)) # value
  /\ config' = DictSet(config, "tool_health_enabled", value)
  /\ lastOp' = Op("config.set", EmptyStr, EmptyStr, {})
  /\ UNCHANGED <<now, healthVars, trigger, transientSeen, execVars, resolveVars, llmVars>>

\* Config._data of the session: two failures within 90 s suppress for 60 s
SwitchConfigs ==
  { [tool_health_fail_threshold |-> JInt(2), tool_health_failure_window_s |-> JInt(90),
     tool_health_suppress_seconds |-> JInt(60)] }

InitSwitchSpec ==
  /\ config \in SwitchConfigs
  /\ InitHealth
  /\ InitExec
  /\ InitResolve
  /\ InitLLM

NextSwitch ==
  \/ \E t \in ToolNames, e \in ErrorTexts : CallRecordFailure(t, e)
  \/ \E t \in ToolNames : CallRecordSuccess(t)
  \/ CallSuppressedTools
  \/ \E d \in ElapseValues : Elapse(d)
  \/ \E value \in EnabledValues : ConfigSetEnabled(value)

SpecSwitch == InitSwitchSpec /\ [][NextSwitch]_vars

(***************************************************************************)
(* SpecResolve: _resolve_params applied to one parameter value and a list  *)
(* of results such as execute_plan accumulates.                            *)
(***************************************************************************)
OutTargets == JDict(s_targets :> JList(<<JStr(<<"A">>), JStr(<<"B">>)>>))

\* a success whose "step" label is not its position
R_okDict ==
  JDict((s_step :> JInt(7)) @@ (s_tool :> JStr(ToolX)) @@ (s_purpose :> JStr(Purpose))
        @@ (s_status :> JStr(s_success)) @@ (s_output :> OutTargets))

R_okStr ==
  JDict((s_step :> JInt(1)) @@ (s_tool :> JStr(ToolY)) @@ (s_purpose :> JStr(Purpose))
        @@ (s_status :> JStr(s_success)) @@ (s_output :> JStr(<<"o","k">>)))

R_error ==
  JDict((s_step :> JInt(2)) @@ (s_tool :> JStr(ToolX)) @@ (s_purpose :> JStr(Purpose))
        @@ (s_status :> JStr(s_error)) @@ (s_error :> JStr(e_timeout)))

R_notFound ==
  JDict((s_step :> JInt(1)) @@ (s_tool :> JStr(ToolZ)) @@ (s_status :> JStr(s_error))
        @@ (s_error :> JStr(<<"T","o","o","l"," ","'","Z","'"," ","n","o","t"," ","f","o","u","n","d",".">>)))

PrevResults == {R_okDict, R_okStr, R_error, R_notFound}

PrevLists == UNION {[1..n -> PrevResults] : n \in 0..MaxPrev}

\* "$step" head "." path[1] "." ... "." path[m]
RefText(head, path) ==
  LET RECURSIVE Dotted(_)
      Dotted(p) == IF p = << >> THEN << >> ELSE s_dot \o Head(p) \o Dotted(Tail(p))
  IN s_dollar_step \o head \o Dotted(path)

\* the references tried: what follows "$step" up to the first dot, the number N it
\* denotes (numeric FALSE: it denotes none), and the keys of the path
References ==
  { [head |-> <<"1">>, numeric |-> TRUE, n |-> 1, path |-> <<s_output, s_targets>>],
    [head |-> <<"2">>, numeric |-> TRUE, n |-> 2, path |-> <<s_output>>],
    [head |-> <<"1">>, numeric |-> TRUE, n |-> 1, path |-> <<s_step>>],
    [head |-> <<"2">>, numeric |-> TRUE, n |-> 2, path |-> <<s_status>>],
    [head |-> <<"3">>, numeric |-> TRUE, n |-> 3, path |-> <<s_tool>>],
    [head |-> <<"5">>, numeric |-> TRUE, n |-> 5, path |-> <<<<"x">>>>],
    [head |-> <<"0">>, numeric |-> TRUE, n |-> 0, path |-> <<s_output>>],
    [head |-> <<"-","1">>, numeric |-> TRUE, n |-> 0 - 1, path |-> <<s_output>>],
    [head |-> <<"x">>, numeric |-> FALSE, n |-> 0, path |-> <<s_output>>],
    [head |-> << >>, numeric |-> FALSE, n |-> 0, path |-> <<s_output>>],
    [head |-> <<"1">> \o s_step, numeric |-> FALSE, n |-> 0, path |-> <<s_output>>],
    [head |-> <<"1">>, numeric |-> TRUE, n |-> 1, path |-> <<s_status, <<"x">>>>],
    [head |-> <<"1">>, numeric |-> TRUE, n |-> 1, path |-> <<s_output, s_targets, <<"x">>>>] }

\* the parameter values tried: the references, a plain string and a number
ParamValues ==
  {JStr(RefText(r.head, r.path)) : r \in References} \cup {JStr(<<"a">>), JInt(3)}

InitResolveSpec ==
  /\ config = EmptyDict
  /\ InitHealth
  /\ InitExec
  /\ InitLLM
  /\ callValue \in ParamValues
  /\ callPrev \in PrevLists
  /\ callOut = <<"none">>

\* _resolve_params({"q": callValue}, callPrev)
CallResolve ==
  /\ callOut = <<"none">>
  /\ callOut' = <<"some", _resolve_params([q |-> callValue], callPrev)["q"]>>
  /\ UNCHANGED <<callValue, callPrev, sessionVars, execVars, llmVars>>

NextResolve == CallResolve

SpecResolve == InitResolveSpec /\ [][NextResolve]_vars

(***************************************************************************)
(* The model catalog, providers and keys (tcm/models/llm.py,               *)
(* tcm/agent/config.py).                                                   *)
(***************************************************************************)
p_anthropic == <<"a","n","t","h","r","o","p","i","c">>
p_openai == <<"o","p","e","n","a","i">>
p_google == <<"g","o","o","g","l","e">>
p_cohere == <<"c","o","h","e","r","e">>
p_bogus == <<"b","o","g","u","s">>

VALID_LLM_PROVIDERS ==
  { p_anthropic, p_openai, <<"d","e","e","p","s","e","e","k">>, <<"k","i","m","i">>, <<"m","i","n","i","m","a","x">>, <<"q","w","e","n">>, p_google,
    <<"m","i","s","t","r","a","l">>, <<"g","r","o","q">>, p_cohere }

\* the providers whose chat and stream go through the OpenAI client
OpenAICompatible ==
  { p_openai, <<"d","e","e","p","s","e","e","k">>, <<"k","i","m","i">>, <<"m","i","n","i","m","a","x">>, <<"q","w","e","n">>, <<"m","i","s","t","r","a","l">>, <<"g","r","o","q">> }

m_claude == <<"c","l","a","u","d","e","-","s","o","n","n","e","t","-","4","-","5","-","2","0","2","5","0","9","2","9">>
m_gpt4o == <<"g","p","t","-","4","o">>
m_GPT5 == <<"G","P","T","-","5","x">>
m_llama == <<"l","l","a","m","a","-","3">>

\* MODEL_CATALOG: two of its entries, prices in cents per million tokens
MODEL_CATALOG ==
  (m_claude :> [provider |-> p_anthropic, input_price |-> 300, output_price |-> 1500])
  @@ (m_gpt4o :> [provider |-> p_openai, input_price |-> 250, output_price |-> 1000])

_PROVIDER_PREFIXES ==
  << <<<<"c","l","a","u","d","e","-">>, p_anthropic>>, <<<<"g","p","t","-">>, p_openai>>, <<<<"o","1","-">>, p_openai>>,
     <<<<"o","3","-">>, p_openai>>, <<<<"o","4","-">>, p_openai>>, <<<<"d","e","e","p","s","e","e","k","-">>, <<"d","e","e","p","s","e","e","k">>>>,
     <<<<"k","i","m","i","-">>, <<"k","i","m","i">>>>, <<<<"m","i","n","i","m","a","x">>, <<"m","i","n","i","m","a","x">>>>, <<<<"q","w","e","n">>, <<"q","w","e","n">>>>,
     <<<<"g","e","m","i","n","i","-">>, p_google>> >>

\* resolve_provider(model): the catalog's provider, else the first matching prefix of
\* the lowercased name, else None
resolve_provider(model) ==
  IF model \in DOMAIN MODEL_CATALOG THEN JStr(MODEL_CATALOG[model].provider)
  ELSE LET hits == {i \in 1..Len(_PROVIDER_PREFIXES) :
                      StartsWith(Lower(model), _PROVIDER_PREFIXES[i][1])}
       IN IF hits = {} THEN JNone
          ELSE JStr(_PROVIDER_PREFIXES[CHOOSE i \in hits : \A j \in hits : i <= j][2])

\* model_pricing(model): the catalog's prices, or None
model_pricing(model) ==
  IF model.kind = "str" /\ model.val \in DOMAIN MODEL_CATALOG
  THEN [found |-> TRUE, input |-> MODEL_CATALOG[model.val].input_price,
        output |-> MODEL_CATALOG[model.val].output_price]
  ELSE [found |-> FALSE, input |-> 0, output |-> 0]

\* LLMClient.DEFAULT_MODELS
DEFAULT_MODELS ==
  (p_anthropic :> m_claude) @@ (p_openai :> m_gpt4o)
  @@ (<<"d","e","e","p","s","e","e","k">> :> <<"d","e","e","p","s","e","e","k","-","v","3",".","2">>) @@ (<<"k","i","m","i">> :> <<"k","i","m","i","-","k","2",".","5">>)
  @@ (<<"m","i","n","i","m","a","x">> :> <<"m","i","n","i","m","a","x","-","m","2",".","5">>) @@ (<<"q","w","e","n">> :> <<"q","w","e","n","3","-","m","a","x">>)
  @@ (p_google :> <<"g","e","m","i","n","i","-","2",".","5","-","f","l","a","s","h">>) @@ (<<"m","i","s","t","r","a","l">> :> <<"m","i","s","t","r","a","l","-","l","a","r","g","e","-","l","a","t","e","s","t">>)
  @@ (<<"g","r","o","q">> :> <<"l","l","a","m","a","-","3",".","1","-","7","0","b","-","v","e","r","s","a","t","i","l","e">>) @@ (p_cohere :> <<"c","o","m","m","a","n","d","-","r","-","p","l","u","s">>)

\* PROVIDER_SPECS: the config key and the environment variable of each provider's key
PROVIDER_SPECS ==
  (p_anthropic :> [config_key |-> "llm.api_key", env |-> "ANTHROPIC_API_KEY"])
  @@ (p_openai :> [config_key |-> "llm.openai_api_key", env |-> "OPENAI_API_KEY"])
  @@ (p_google :> [config_key |-> "llm.google_api_key", env |-> "GOOGLE_API_KEY"])
  @@ (<<"m","i","s","t","r","a","l">> :> [config_key |-> "llm.mistral_api_key", env |-> "MISTRAL_API_KEY"])
  @@ (<<"g","r","o","q">> :> [config_key |-> "llm.groq_api_key", env |-> "GROQ_API_KEY"])
  @@ (p_cohere :> [config_key |-> "llm.cohere_api_key", env |-> "COHERE_API_KEY"])
  @@ (<<"t","o","g","e","t","h","e","r">> :> [config_key |-> "llm.together_api_key", env |-> "TOGETHER_API_KEY"])
  @@ (<<"o","l","l","a","m","a">> :> [config_key |-> "llm.ollama_api_key", env |-> "None"])
  @@ (<<"d","e","e","p","s","e","e","k">> :> [config_key |-> "llm.deepseek_api_key", env |-> "DEEPSEEK_API_KEY"])
  @@ (<<"k","i","m","i">> :> [config_key |-> "llm.kimi_api_key", env |-> "MOONSHOT_API_KEY"])
  @@ (<<"m","i","n","i","m","a","x">> :> [config_key |-> "llm.minimax_api_key", env |-> "MINIMAX_API_KEY"])
  @@ (<<"q","w","e","n">> :> [config_key |-> "llm.qwen_api_key", env |-> "DASHSCOPE_API_KEY"])

k_new == <<"s","k","-","n","e","w">>
k_env == <<"s","k","-","e","n","v">>

\* os.environ: the process was started with a key for OpenAI only
os_environ == ("OPENAI_API_KEY" :> JStr(k_env))

\* `a or b`
Or(a, b) == IF bool(a) THEN a ELSE b

\* Config.llm_api_key(provider)
llm_api_key(provider) ==
  LET prov == Lower(Or(provider, ConfigGet("llm.provider", JStr(p_anthropic))).val)
  IN IF prov \notin DOMAIN PROVIDER_SPECS THEN JNone
     ELSE Or(DictGet(config, PROVIDER_SPECS[prov].config_key, JNone),
             DictGet(os_environ, PROVIDER_SPECS[prov].env, JNone))

(***************************************************************************)
(* UsageTracker and LLMClient (tcm/models/llm.py).                         *)
(***************************************************************************)
\* one attempt more than _retry makes
retry_max_retries_four == 3 + 1

\* the number of attempts _retry makes at most
retry_max_retries == 3
\* the first backoff delay of _retry, in seconds
retry_base_delay == 2

\* a usage mapping with both counts
Usage(input, output) == JDict([input |-> input, output |-> output])

\* a cost that leaves the output tokens out
_estimate_cost_inputOnly(model, usage) ==
  IF ~model_pricing(model).found THEN 0
  ELSE DictGet(usage.val, "input", 0) * model_pricing(model).input

\* UsageTracker._estimate_cost(model, usage), in units of 1e-8 USD:
\* (input / 1e6) * input price + (output / 1e6) * output price
_estimate_cost(model, usage) ==
  IF ~model_pricing(model).found THEN 0
  ELSE DictGet(usage.val, "input", 0) * model_pricing(model).input
       + DictGet(usage.val, "output", 0) * model_pricing(model).output

\* UsageTracker.record(model, usage): the calls list afterwards
record(calls, model, usage) ==
  IF ~bool(usage) THEN calls
  ELSE Append(calls, [model |-> model,
                      input |-> DictGet(usage.val, "input", 0),
                      output |-> DictGet(usage.val, "output", 0),
                      cost |-> _estimate_cost(model, usage)])

RECURSIVE SumOf(_, _)
\* sum(c.get(field, 0) for c in calls)
SumOf(calls, field) ==
  IF calls = << >> THEN 0 ELSE Head(calls)[field] + SumOf(Tail(calls), field)

total_input_tokens(calls) == SumOf(calls, "input")
total_output_tokens(calls) == SumOf(calls, "output")
total_cost(calls) == SumOf(calls, "cost")

\* LLMClient(provider, model, api_key): a new client with an empty UsageTracker
LLMClient(provider, model, api_key) ==
  [provider |-> provider,
   model |-> Or(model, IF provider.kind = "str" /\ provider.val \in DOMAIN DEFAULT_MODELS
                       THEN JStr(DEFAULT_MODELS[provider.val]) ELSE JNone),
   api_key |-> api_key,
   calls |-> << >>]

\* Session._create_llm()
_create_llm ==
  LLMClient(ConfigGet("llm.provider", JStr(p_anthropic)),
            ConfigGet("llm.model", JNone),
            llm_api_key(ConfigGet("llm.provider", JStr(p_anthropic))))

\* the error texts of the provider SDKs
e_529 == <<"E","r","r","o","r"," ","c","o","d","e",":"," ","5","2","9"," ","O","v","e","r","l","o","a","d","e","d">>
e_auth == <<"E","r","r","o","r"," ","c","o","d","e",":"," ","4","0","1"," ","i","n","v","a","l","i","d"," ","x","-","a","p","i","-","k","e","y">>
e_attr == <<"'","S","e","s","s","i","o","n","'"," ","o","b","j","e","c","t"," ","h","a","s"," ","n","o"," ","a","t","t","r","i","b","u","t","e"," ","'","r","e","f","r","e","s","h","_","l","l","m","'">>
e_provider == <<"I","n","v","a","l","i","d"," ","p","r","o","v","i","d","e","r">>

llm_transient_markers ==
  { <<"r","a","t","e","_","l","i","m","i","t">>, <<"r","a","t","e"," ","l","i","m","i","t">>, <<"4","2","9">>, <<"o","v","e","r","l","o","a","d","e","d">>, <<"5","2","9">>, <<"5","0","0">>, <<"5","0","2">>,
    <<"5","0","3">>, <<"c","o","n","n","e","c","t","i","o","n">>, <<"t","i","m","e","o","u","t">> }

\* lines 548-552: is_transient
is_transient(err) ==
  LET err_str == Lower(err)
  IN \E w \in llm_transient_markers : Contains(err_str, w)

\* what one provider call does: it returns a response or raises
Returns(content, usage) == [kind |-> "return", err |-> EmptyStr, content |-> content, usage |-> usage]
Raises(err) == [kind |-> "raise", err |-> err, content |-> EmptyStr, usage |-> JNone]

AttemptEvent(n) == [ev |-> "attempt", n |-> n]
DelayEvent(delay) == [ev |-> "sleep", n |-> delay]

RECURSIVE Pow2(_)
Pow2(n) == IF n <= 0 THEN 1 ELSE 2 * Pow2(n - 1)

\* a backoff that does not grow
backoff_delay_flat(base_delay, n) == base_delay

\* delay = base_delay * (2 ** (attempt - 1)), n being the attempt
backoff_delay(base_delay, n) == base_delay * Pow2(n - 1)

RECURSIVE _retry(_, _, _, _, _)
\* LLMClient._retry(fn, max_retries, base_delay), max_retries
\* being `retries`, from attempt n on, fn behaving as the
\* script says: the events so far and how the call ends. A script that is too short
\* ends the run with kind "short"; a loop that runs out returns None.
_retry(script, retries, base_delay, n, events) ==
  IF n > retries
  THEN [log |-> events, out |-> NoOut]
  ELSE IF n > Len(script)
  THEN [log |-> events, out |-> [NoOut EXCEPT !.kind = "short"]]
  ELSE IF script[n].kind = "return"
  THEN [log |-> Append(events, AttemptEvent(n)), out |-> script[n]]
  ELSE IF is_transient(script[n].err) /\ n < retries
  THEN _retry(script, retries, base_delay, n + 1,
              events \o <<AttemptEvent(n),
                          DelayEvent(backoff_delay(base_delay, n))>>)
  ELSE [log |-> Append(events, AttemptEvent(n)), out |-> script[n]]

(***************************************************************************)
(* SpecLLM: the session's LLM client, as the planner, the synthesizer, the *)
(* model picker and the credential-repair flow use it.                     *)
(***************************************************************************)
\* cli.py _is_auth_error / InteractiveTerminal._is_auth_error
_is_auth_error(err) ==
  LET e == Lower(err)
  IN \/ Contains(e, <<"a","u","t","h","e","n","t","i","c","a","t","i","o","n">>)
     \/ Contains(e, <<"4","0","1">>)
     \/ Contains(e, <<"i","n","v","a","l","i","d"," ","x","-","a","p","i","-","k","e","y">>)
     \/ Contains(e, <<"i","n","v","a","l","i","d"," ","a","p","i"," ","k","e","y">>)

\* an exception nobody catches has ended the program: a chat error that is no
\* authentication error, or the error of the credential-repair flow
Halted ==
  /\ llmOp.out.kind = "raise"
  /\ \/ llmOp.op = "handle_auth_error"
     \/ llmOp.op \in {"chat", "stream"} /\ ~_is_auth_error(llmOp.out.err)

\* create_plan failed with an authentication error: the caller runs the repair flow
AwaitingRepair ==
  llmOp.op = "chat" /\ llmOp.out.kind = "raise" /\ _is_auth_error(llmOp.out.err)

Flowing == ~Halted /\ ~AwaitingRepair

\* what a provider call can do
ProviderOutcomes ==
  { Returns(<<"p","l","a","n">>, Usage(1000000, 0)),
    Returns(EmptyStr, JNone),
    Raises(e_529),
    Raises(e_auth) }

\* the number of provider calls in a log
Attempts(events) == Len(SelectSeq(events, LAMBDA ev : ev.ev = "attempt"))

\* the provider's behaviour during one chat call, as far as the call observes it
ChatScripts ==
  {s \in UNION {[1..n -> ProviderOutcomes] : n \in 1..retry_max_retries} :
     LET r == _retry(s, retry_max_retries, retry_base_delay, 1, << >>)
     IN r.out.kind # "short" /\ Attempts(r.log) = Len(s)}

RECURSIVE Slept(_)
\* the seconds slept in a log
Slept(events) ==
  IF events = << >> THEN 0
  ELSE (IF Head(events).ev = "sleep" THEN Head(events).n ELSE 0) + Slept(Tail(events))

\* session.get_llm()
GetLlm ==
  /\ Flowing
  /\ IF _llm = 0
     THEN /\ Len(clients) < MaxClients
          /\ clients' = Append(clients, _create_llm)
          /\ _llm' = Len(clients) + 1
     ELSE UNCHANGED <<clients, _llm>>
  /\ llmOp' = LLMOp("get_llm", JNone, JNone, << >>, << >>, NoOut, _llm')
  /\ UNCHANGED <<llmCalls, sessionVars, execVars, resolveVars>>

\* Config.set("llm.model", model) applied to Config._data
config_set_model(data, model) ==
  LET provider == resolve_provider(model.val)
      data1 == IF bool(provider) THEN DictSet(data, "llm.provider", provider) ELSE data
  IN DictSet(data1, "llm.model", model)

\* set_model without the invalidation of the cached client
SetModel_keepsClient(model, provider) ==
  /\ Flowing
  /\ IF bool(provider) /\ provider.val \notin VALID_LLM_PROVIDERS
     THEN /\ llmOp' = LLMOp("set_model", model, provider, << >>, << >>,
                            Raises(e_provider), 0)
          /\ UNCHANGED config
     ELSE /\ config' = config_set_model(
                         IF bool(provider) THEN DictSet(config, "llm.provider", provider)
                         ELSE config,
                         model)
          /\ llmOp' = LLMOp("set_model", model, provider, << >>, << >>, NoOut, 0)
  /\ UNCHANGED <<_llm, clients, llmCalls, now, healthVars, lastOp, trigger, transientSeen,
                 execVars, resolveVars>>

\* session.set_model(model, provider)
SetModel(model, provider) ==
  /\ Flowing
  /\ IF bool(provider) /\ provider.val \notin VALID_LLM_PROVIDERS
     THEN /\ llmOp' = LLMOp("set_model", model, provider, << >>, << >>,
                            Raises(e_provider), 0)
          /\ UNCHANGED <<config, _llm>>
     ELSE /\ config' = config_set_model(
                         IF bool(provider) THEN DictSet(config, "llm.provider", provider)
                         ELSE config,
                         model)
          /\ _llm' = 0
          /\ llmOp' = LLMOp("set_model", model, provider, << >>, << >>, NoOut, 0)
  /\ UNCHANGED <<clients, llmCalls, now, healthVars, lastOp, trigger, transientSeen,
                 execVars, resolveVars>>

\* llm = session.get_llm() has just run; llm.chat(...) with the provider behaving as
\* the script says
Chat(script) ==
  /\ Flowing
  /\ llmOp.op = "get_llm"
  /\ _llm # 0
  /\ llmCalls < MaxCalls
  /\ llmCalls' = llmCalls + 1
  /\ LET self == clients[_llm]
     IN IF ~(self.provider.kind = "str" /\ self.provider.val \in VALID_LLM_PROVIDERS)
        THEN \* _get_client raises ValueError("Unknown provider: ...")
             /\ Len(script) = 1
             /\ llmOp' = LLMOp("chat", JNone, JNone, << >>, << >>, Raises(e_provider), _llm)
             /\ UNCHANGED <<clients, now>>
        ELSE LET r == _retry(script, retry_max_retries, retry_base_delay, 1, << >>)
             IN \* _call_anthropic always builds a usage mapping
                /\ self.provider.val = p_anthropic =>
                     \A i \in 1..Len(script) :
                       script[i].kind = "return" => script[i].usage # JNone
                /\ llmOp' = LLMOp("chat", JNone, JNone, script, r.log, r.out, _llm)
                /\ now' = now + Slept(r.log)
                /\ clients' =
                     IF r.out.kind = "return"
                     THEN [clients EXCEPT ![_llm].calls =
                             record(self.calls, self.model, r.out.usage)]
                     ELSE clients
  /\ UNCHANGED <<_llm, config, healthVars, lastOp, trigger, transientSeen,
                 execVars, resolveVars>>

\* what the end of a stream reports: a usage mapping, or nothing
StreamFinals == {Usage(1000, 500), JNone}

\* llm = session.get_llm() has just run; llm.stream(...) is drained. Only
\* _stream_anthropic records usage, when get_final_message() succeeds.
Stream(final) ==
  /\ Flowing
  /\ llmOp.op = "get_llm"
  /\ _llm # 0
  /\ llmCalls < MaxCalls
  /\ llmCalls' = llmCalls + 1
  /\ LET self == clients[_llm]
     IN /\ self.provider.kind = "str"
        /\ self.provider.val \in ({p_anthropic, p_google} \cup OpenAICompatible)
        /\ self.provider.val # p_anthropic => final = JNone
        /\ clients' = IF self.provider.val = p_anthropic
                      THEN [clients EXCEPT ![_llm].calls =
                              record(self.calls, self.model, final)]
                      ELSE clients
        /\ llmOp' = LLMOp("stream", JNone, JNone, << >>, << >>,
                          Returns(<<"a","n","s","w","e","r">>, final), _llm)
  /\ UNCHANGED <<_llm, config, now, healthVars, lastOp, trigger, transientSeen,
                 execVars, resolveVars>>

\* Config.set_llm_api_key(provider, api_key) raises ValueError
set_llm_api_key_raises(provider) ==
  \/ ~bool(provider)
  \/ Lower(provider.val) \notin DOMAIN PROVIDER_SPECS

\* _handle_auth_error(session) after an authentication error: the user declines, or
\* enters new_key, which is saved before session.refresh_llm() is called.  Session
\* has no refresh_llm: the call raises AttributeError.
HandleAuthError(choice, new_key) ==
  /\ AwaitingRepair
  /\ LET provider == ConfigGet("llm.provider", JStr(p_anthropic))
     IN IF choice # "y"
        THEN /\ llmOp' = LLMOp("handle_auth_error", JNone, provider, << >>, << >>,
                               NoOut, _llm)
             /\ UNCHANGED config
        ELSE IF set_llm_api_key_raises(provider)
        THEN /\ llmOp' = LLMOp("handle_auth_error", JNone, provider, << >>, << >>,
                               NoOut, _llm)
             /\ UNCHANGED config
        ELSE /\ config' = DictSet(config, PROVIDER_SPECS[Lower(provider.val)].config_key,
                                  JStr(new_key))
             /\ llmOp' = LLMOp("handle_auth_error", JStr(new_key), provider, << >>, << >>,
                               Raises(e_attr), _llm)
  /\ UNCHANGED <<_llm, clients, llmCalls, now, healthVars, lastOp, trigger, transientSeen,
                 execVars, resolveVars>>

\* Config._data of the sessions whose LLM side is exercised
LLMConfigs ==
  { EmptyDict,
    ("llm.provider" :> JStr(p_openai)) @@ ("llm.model" :> JStr(m_gpt4o)) }

\* the arguments of set_model: a model name alone (in the catalog, known by its
\* prefix, unknown, empty), and a model name with a provider (valid, invalid)
SetModelArgs ==
  { <<JStr(m_gpt4o), JNone>>, <<JStr(m_GPT5), JNone>>, <<JStr(m_llama), JNone>>,
    <<JStr(EmptyStr), JNone>>,
    <<JStr(m_gpt4o), JStr(p_google)>>, <<JStr(m_llama), JStr(p_google)>>,
    <<JStr(m_llama), JStr(p_bogus)>> }

InitLLMSpec ==
  /\ config \in LLMConfigs
  /\ InitHealth
  /\ InitExec
  /\ InitResolve
  /\ InitLLM

NextLLM ==
  \/ GetLlm
  \/ \E args \in SetModelArgs : SetModel(args[1], args[2])
  \/ \E script \in ChatScripts : Chat(script)
  \/ \E final \in StreamFinals : Stream(final)
  \/ \E choice \in {"y", "n"}, new_key \in {k_new} : HandleAuthError(choice, new_key)

SpecLLM == InitLLMSpec /\ [][NextLLM]_vars

(***************************************************************************)
(* SpecUsage: one UsageTracker, record(model, usage) called on it.         *)
(***************************************************************************)
\* the usage mappings record is called with: None, {}, one key, both keys
UsageArgs ==
  { JNone, JDict(EmptyDict), JDict([input |-> 1000000]), JDict([output |-> 2]),
    Usage(1000, 500) }

\* the model names record is called with: two of the price table, two outside it
UsageModels == {JStr(m_gpt4o), JStr(m_claude), JStr(m_llama), JNone}

\* self.usage.record(model, usage) on the tracker of the only client
RecordUsage(model, usage) ==
  /\ _llm = 1
  /\ Len(clients[1].calls) < MaxRecords
  /\ clients' = [clients EXCEPT ![1].calls = record(clients[1].calls, model, usage)]
  /\ llmOp' = LLMOp("record", model, JNone, << >>, << >>, Returns(EmptyStr, usage), 1)
  /\ UNCHANGED <<_llm, llmCalls, sessionVars, execVars, resolveVars>>

InitUsageSpec ==
  /\ config = EmptyDict
  /\ InitHealth
  /\ InitExec
  /\ InitResolve
  /\ _llm = 1
  /\ clients = <<LLMClient(JStr(p_openai), JStr(m_gpt4o), JNone)>>
  /\ llmOp = NoLLMOp
  /\ llmCalls = 0

NextUsage == \E model \in UsageModels, usage \in UsageArgs : RecordUsage(model, usage)

SpecUsage == InitUsageSpec /\ [][NextUsage]_vars

(***************************************************************************)
(* Properties of execute_plan, checked under Spec.                         *)
(***************************************************************************)
\* the tool.run calls of the step being processed, in order
Runs == SelectSeq(log, LAMBDA ev : ev.ev = "run")

\* agent.executor_max_retries as the configuration gives it
ConfiguredRetries == int(ConfigGet("executor_max_retries", JInt(2)))

\* the step at position idx - 1 has just been processed and names a registered tool
StepEnded ==
  /\ pc \in {"loop", "done"}
  /\ idx > 1
  /\ DictGet(steps[idx - 1], "tool", EmptyStr) \in RegisteredTools

EndedTool == DictGet(steps[idx - 1], "tool", EmptyStr)

\* the returned list has one result per step, the i-th with the i-th step's tool name
ResultsMatchSteps ==
  /\ Len(returned) = Len(steps)
  /\ \A i \in 1..Len(steps) :
       returned[i].val[s_tool] = JStr(DictGet(steps[i], "tool", EmptyStr))

C2_InvokedAtLeastOnce ==
  StepEnded => (Len(Runs) >= 1 /\ Len(results) = idx - 1)

\* C3: with agent.executor_max_retries = n >= 1, a step whose every attempt raised made
\* exactly n attempts, whatever the error texts, and its result is an error carrying the
\* text of the last attempt's exception.
C3_RetryExhaustion ==
  (/\ StepEnded
   /\ ConfiguredRetries >= 1
   /\ \A i \in 1..Len(Runs) : Runs[i].raised)
  => /\ Len(Runs) = ConfiguredRetries
     /\ results[idx - 1].val[s_status] = JStr(s_error)
     /\ results[idx - 1].val[s_error] = Runs[Len(Runs)].val

\* two attempts raised, a transient error then a non-transient one, and the result
\* carries the second
C3_Witness ==
  /\ StepEnded
  /\ ConfiguredRetries = 2
  /\ Len(Runs) = 2
  /\ Runs[1].raised /\ Runs[1].val = JStr(e_timeout)
  /\ Runs[2].raised /\ Runs[2].val = JStr(e_invalid)
  /\ results[idx - 1].val[s_error] = JStr(e_invalid)

\* C4: when attempt k is the first of a step not to raise, the tool was invoked exactly
\* k times (k <= max_retries), the result is a success whose output is attempt k's
\* return value, and as the step ends the tool has no failure history and no
\* suppression entry.
C4_RetryThenSuccess ==
  (/\ StepEnded
   /\ log # << >>
   /\ ~log[Len(log)].raised)
  => LET k == Len(Runs)
     IN /\ 1 <= k /\ k <= ConfiguredRetries
        /\ \A i \in 1..k : Runs[i].attempt = i /\ (Runs[i].raised <=> i < k)
        /\ results[idx - 1].val[s_status] = JStr(s_success)
        /\ results[idx - 1].val[s_output] = Runs[k].val
        /\ EndedTool \notin DOMAIN _tool_health_failures
        /\ EndedTool \notin DOMAIN _tool_health_suppressed_until

\* a transient failure on attempt 1 was recorded, attempt 2 succeeded and cleared it
C4_Witness ==
  /\ StepEnded
  /\ Len(Runs) = 2
  /\ Runs[1].raised /\ Runs[1].val = JStr(e_timeout)
  /\ ~Runs[2].raised
  /\ results[idx - 1].val[s_status] = JStr(s_success)
  /\ EndedTool \in transientSeen
  /\ EndedTool \notin DOMAIN _tool_health_failures

\* C7: execute_plan called with a plan whose steps are empty or absent returns at once
\* exactly one result {step 0, tool "llm_direct", status "success"} carrying the
\* plan's reasoning, having invoked no tool and changed no tool-health state.
C7_EmptyPlan ==
  [][(pc = "idle" /\ pc' # "idle" /\ DictGet(plan', "steps", << >>) = << >>)
     => /\ pc' = "done"
        /\ Len(returned') = 1
        /\ returned'[1].val[s_step] = JInt(0)
        /\ returned'[1].val[s_tool] = JStr(s_llm_direct)
        /\ returned'[1].val[s_status] = JStr(s_success)
        /\ returned'[1].val[s_result] = JStr(DictGet(plan', "reasoning", EmptyStr))
        /\ log' = << >>
        /\ UNCHANGED healthVars]_vars

\* an empty plan with a reasoning has returned in a session where an earlier plan left
\* a tool suppressed
C7_Witness ==
  /\ pc = "done"
  /\ steps = << >>
  /\ "reasoning" \in DOMAIN plan
  /\ returned[1].val[s_result] = JStr(Reasoning)
  /\ ToolX \in DOMAIN _tool_health_suppressed_until

(***************************************************************************)
(* Properties of _resolve_params, checked under SpecResolve.               *)
(***************************************************************************)
RECURSIVE Present(_, _)
\* every key of the path is present along nested mappings of obj
Present(obj, path) ==
  \/ path = << >>
  \/ /\ obj.kind = "dict"
     /\ Head(path) \in DOMAIN obj.val
     /\ Present(obj.val[Head(path)], Tail(path))

RECURSIVE ValueAt(_, _)
\* the value the path leads to in obj, for Present(obj, path)
ValueAt(obj, path) ==
  IF path = << >> THEN obj ELSE ValueAt(obj.val[Head(path)], Tail(path))

RECURSIVE Inside(_)
\* obj and every value nested in it
Inside(obj) ==
  {obj} \cup (IF obj.kind = "dict"
              THEN UNION {Inside(obj.val[k]) : k \in DOMAIN obj.val}
              ELSE {})

\* the reference r is the parameter value given
Given(r) == callValue = JStr(RefText(r.head, r.path))

\* the reference r can be resolved against the results so far
Resolvable(r) ==
  /\ r.numeric
  /\ 1 <= r.n /\ r.n <= Len(callPrev)
  /\ Present(callPrev[r.n], r.path)

\* C5: a parameter "$stepN.k1...km" of step i with 1 <= N < i, every key present along
\* nested mappings of the N-th result (by position, not by its 'step' label), resolves
\* to the value found there; whatever a parameter resolves to is the parameter itself
\* or a value inside one of the results before i.
C5_BackwardReference ==
  callOut[1] = "some" =>
    /\ \A r \in References :
         (Given(r) /\ Resolvable(r)) => callOut[2] = ValueAt(callPrev[r.n], r.path)
    /\ \/ callOut[2] = callValue
       \/ \E n \in 1..Len(callPrev) : callOut[2] \in Inside(callPrev[n])

\* "$step1.output.targets" resolved to ["A", "B"], the output of the first of two
\* results, whose own 'step' label is 7
C5_Witness ==
  /\ callOut[1] = "some"
  /\ callValue = ParamRef
  /\ Len(callPrev) = 2
  /\ callPrev[1].val[s_step] = JInt(7)
  /\ callOut[2] = JList(<<JStr(<<"A">>), JStr(<<"B">>)>>)

\* C6 as stated: a "$step..." parameter that cannot be resolved (N zero, negative,
\* non-numeric or beyond the results so far, a key missing, a non-mapping reached
\* before the path ends) resolves to the reference string itself.
C6_BrokenReference ==
  callOut[1] = "some" =>
    \A r \in References : (Given(r) /\ ~Resolvable(r)) => callOut[2] = callValue

(***************************************************************************)
(* Properties of the Session's tool health, checked under SpecHealth.      *)
(***************************************************************************)
\* C8: the failure of X that counts and finds threshold - 1 failures of X on record
\* within the window leaves X in the set tool_health_suppressed_tools() returns; a
\* record_tool_success(X) leaves X out of it at once.
C8_Threshold ==
  [][\A X \in RegisteredTools :
       /\ (lastOp'.op = "record_tool_failure" /\ lastOp'.tool = X
           /\ Triggers(X, lastOp'.err))
          => X \in SuppressedNow'
       /\ (lastOp'.op = "record_tool_success" /\ lastOp'.tool = X)
          => X \notin SuppressedNow']_vars

\* with threshold 2, the second of two failures of X recorded at different times within
\* the window has just been recorded and X is suppressed
C8_Witness ==
  /\ lastOp.op = "record_tool_failure"
  /\ lastOp.tool = ToolX
  /\ threshold = 2
  /\ ToolX \in DOMAIN _tool_health_failures
  /\ Len(_tool_health_failures[ToolX]) = 2
  /\ _tool_health_failures[ToolX][1] < _tool_health_failures[ToolX][2]
  /\ ToolX \in SuppressedNow

\* C9: when the failure that suppressed X was recorded at time t and nothing was
\* recorded for X since, tool_health_suppressed_tools() read before t + suppress_s
\* returns X and read past t + suppress_s does not.
C9_Expiry ==
  [][\A X \in RegisteredTools :
       (lastOp'.op = "tool_health_suppressed_tools" /\ X \in DOMAIN trigger)
       => /\ now < trigger[X] + suppress_s => X \in lastOp'.ret
          /\ now > trigger[X] + suppress_s => X \notin lastOp'.ret]_vars

\* a read made more than suppress_s after the suppressing failure does not return X
C9_Witness ==
  /\ lastOp.op = "tool_health_suppressed_tools"
  /\ ToolX \in DOMAIN trigger
  /\ now > trigger[ToolX] + suppress_s
  /\ ToolX \notin lastOp.ret

\* C10: record_tool_failure with an error text holding no transient marker leaves both
\* maps as they were, for every tool; a tool for which no failure with a marker was ever
\* recorded is never in the suppressed set.
C10_NonTransient ==
  /\ [][(lastOp'.op = "record_tool_failure" /\ ~HasMarker(lastOp'.err))
        => UNCHANGED healthVars]_vars
  /\ [](SuppressedNow \subseteq transientSeen)

\* "invalid parameter" was just recorded for X, which never failed otherwise, while
\* another tool is suppressed
C10_Witness ==
  /\ lastOp.op = "record_tool_failure"
  /\ lastOp.tool = ToolX
  /\ lastOp.err = e_invalid
  /\ ToolX \notin transientSeen
  /\ ToolX \notin DOMAIN _tool_health_failures
  /\ ToolY \in SuppressedNow

\* C11 as stated: a failure of X recorded while X is suppressed leaves the suppression
\* deadline of X where the failure that suppressed X put it.
C11_FixedDeadline ==
  [][\A X \in RegisteredTools :
       (lastOp'.op = "record_tool_failure" /\ lastOp'.tool = X /\ X \in SuppressedNow)
       => /\ X \in DOMAIN _tool_health_suppressed_until'
          /\ _tool_health_suppressed_until'[X] = _tool_health_suppressed_until[X]]_vars

(***************************************************************************)
(* Properties of LLMClient.chat, checked under SpecLLM.                    *)
(***************************************************************************)
\* the chat call that has just ended, and the provider calls it made
ChatEnded == llmOp.op = "chat" /\ llmOp.script # << >>

\* the first k-1 provider calls of the chat call failed with transient errors and
\* call k returned
FailThenReturn(k) ==
  /\ Len(llmOp.script) >= k
  /\ \A i \in 1..(k - 1) :
       llmOp.script[i].kind = "raise" /\ is_transient(llmOp.script[i].err)
  /\ llmOp.script[k].kind = "return"

\* attempt 1, sleep 2, attempt 2, sleep 4, ..., attempt k
BackoffLog(k) ==
  [j \in 1..(2 * k - 1) |->
     IF j % 2 = 1 THEN AttemptEvent((j + 1) \div 2)
     ELSE DelayEvent(2 * 2 ^ ((j \div 2) - 1))]

\* C12: when the first k-1 attempts of a chat call (k <= 3) fail with transient
\* errors and attempt k succeeds, chat returns attempt k's response after exactly
\* k-1 sleeps, the i-th lasting 2 * 2^(i-1) seconds, each between two consecutive
\* attempts.
C12_RetryBackoff ==
  ChatEnded =>
    \A k \in 1..3 :
      FailThenReturn(k) =>
        /\ llmOp.out = llmOp.script[k]
        /\ llmOp.log = BackoffLog(k)

\* C12 happens: two transient failures, then a response, with sleeps of 2 s and 4 s.
C12_Witness ==
  /\ ChatEnded
  /\ FailThenReturn(3)
  /\ llmOp.out.kind = "return"
  /\ llmOp.log = <<AttemptEvent(1), DelayEvent(2), AttemptEvent(2), DelayEvent(4),
                   AttemptEvent(3)>>

\* the last provider call of the chat call that has just ended
LastProviderCall == llmOp.script[Attempts(llmOp.log)]

\* C13: a chat call makes at most 3 provider attempts; an error matching no
\* transient marker is raised after exactly one attempt and no sleep; when all 3
\* attempts fail with transient errors the third error is raised with no sleep after
\* it; chat never returns a response for a call whose last attempt failed.
C13_ErrorPropagation ==
  ChatEnded =>
    /\ Attempts(llmOp.log) <= 3
    /\ Attempts(llmOp.log) >= 1
    /\ (llmOp.script[1].kind = "raise" /\ ~is_transient(llmOp.script[1].err))
         => (llmOp.out = llmOp.script[1] /\ llmOp.log = <<AttemptEvent(1)>>)
    /\ (/\ Len(llmOp.script) >= 3
        /\ \A i \in 1..3 :
             llmOp.script[i].kind = "raise" /\ is_transient(llmOp.script[i].err))
         => /\ llmOp.out = llmOp.script[3]
            /\ llmOp.log = <<AttemptEvent(1), DelayEvent(2), AttemptEvent(2),
                             DelayEvent(4), AttemptEvent(3)>>
    /\ LastProviderCall.kind = "raise" => llmOp.out = LastProviderCall

\* C13 happens: three transient failures, and the third error reaches the caller.
C13_Witness ==
  /\ ChatEnded
  /\ Attempts(llmOp.log) = 3
  /\ llmOp.out = Raises(e_529)
  /\ Halted

(***************************************************************************)
(* More properties of execute_plan, checked under Spec.                    *)
(***************************************************************************)
\* C14 as stated: execute_plan never raises for a per-step failure, whatever the
\* tool raises and whatever tool-health bookkeeping does while recording the
\* attempt: the failure becomes an error StepResult and the next step is processed.
C14_NeverRaises ==
  [][(pc = "retry" /\ Len(Runs') > Len(Runs) /\ Runs'[Len(Runs')].raised)
     => /\ pc' # "raised"
        /\ pc' = "loop" =>
             /\ Len(results') = Len(results) + 1
             /\ results'[Len(results')].val[s_status] = JStr(s_error)]_vars

\* the step about to be processed names a tool the registry does not hold
UnknownToolNext == pc = "loop" /\ idx <= Len(steps) /\ tool_name \notin RegisteredTools

\* "Tool '<name>' not found."
NotFoundMessage(name) ==
  <<"T","o","o","l"," ","'">> \o name \o <<"'"," ","n","o","t"," ","f","o","u","n","d",".">>

\* C15: a step whose tool name is not in the registry produces at once an error
\* StepResult with the message "Tool '<name>' not found.", with no invocation, no
\* retry, no sleep and no change to any tool's failure history or suppression; the
\* result takes the step's position in the results.
C15_UnknownTool ==
  [][UnknownToolNext =>
       /\ Len(results') = idx
       /\ \A i \in 1..Len(results) : results'[i] = results[i]
       /\ results'[idx].val[s_status] = JStr(s_error)
       /\ results'[idx].val[s_error] = JStr(NotFoundMessage(tool_name))
       /\ s_output \notin DOMAIN results'[idx].val
       /\ log' = << >>
       /\ now' = now
       /\ healthVars' = healthVars
       /\ idx' = idx + 1
       /\ pc' = "loop"]_vars

\* C15 happens: the second step named an unknown tool after a first step whose tool
\* ran, and its result is the second of two.
C15_Witness ==
  /\ pc = "loop"
  /\ idx = 3
  /\ Len(results) = 2
  /\ results[1].val[s_status] = JStr(s_success)
  /\ results[2].val[s_error] = JStr(NotFoundMessage(ToolZ))
  /\ log = << >>

(***************************************************************************)
(* Properties of the session's LLM client, checked under SpecLLM.          *)
(***************************************************************************)
\* session.get_llm().usage.calls: the records of the cached client, those of a
\* newly built one when none is cached
SessionUsage == IF _llm = 0 THEN << >> ELSE clients[_llm].calls

\* C16 as stated: with reset() never called, every Usage record that was visible
\* through session.get_llm().usage is still there after any chat, stream or
\* set_model, and the session's total input tokens, output tokens and cost never
\* decrease.
C16_AppendOnly ==
  [][/\ Len(SessionUsage') >= Len(SessionUsage)
     /\ \A i \in 1..Len(SessionUsage) : SessionUsage'[i] = SessionUsage[i]
     /\ total_input_tokens(SessionUsage') >= total_input_tokens(SessionUsage)
     /\ total_output_tokens(SessionUsage') >= total_output_tokens(SessionUsage)
     /\ total_cost(SessionUsage') >= total_cost(SessionUsage)]_vars

\* set_model has just returned normally
ModelSwitched == llmOp.op = "set_model" /\ llmOp.out.kind = "none"

\* get_llm keeps the cached client while no set_model intervenes, and set_model
\* leaves no cached client
CachedUntilSwitched ==
  /\ (_llm # 0 /\ llmOp'.op # "set_model") => _llm' = _llm
  /\ (_llm # 0 /\ llmOp'.op = "get_llm") => Len(clients') = Len(clients)
  /\ (llmOp'.op = "set_model" /\ llmOp'.out.kind = "none") => _llm' = 0

\* the get_llm that follows set_model(m) builds a new client with model m and the
\* provider the configuration names
RebuiltWithModel ==
  (ModelSwitched /\ llmOp'.op = "get_llm")
  => /\ _llm' = Len(clients) + 1
     /\ Len(clients') = Len(clients) + 1
     /\ clients'[_llm'].model = llmOp.model
     /\ clients'[_llm'].provider = ConfigGet("llm.provider", JStr(p_anthropic))

\* C17 as stated: with no intervening set_model consecutive get_llm() calls return
\* the identical client; after set_model(m) returns normally the cached client is
\* absent and the next get_llm() builds a new client whose model is m and whose
\* provider is the configuration's current llm.provider.
C17_AsStated == [][CachedUntilSwitched /\ RebuiltWithModel]_vars

\* C17 amended: the same, for a model name m that is not empty.
C17_ClientCache ==
  [][/\ CachedUntilSwitched
     /\ llmOp.model # JStr(EmptyStr) => RebuiltWithModel]_vars

\* C17 happens: a client was built, set_model("GPT-5x") dropped it, and get_llm has
\* built a second client with that model and the provider openai.
C17_Witness ==
  /\ llmOp.op = "get_llm"
  /\ _llm = 2
  /\ Len(clients) = 2
  /\ clients[1].provider = JStr(p_anthropic)
  /\ clients[2].model = JStr(m_GPT5)
  /\ clients[2].provider = JStr(p_openai)

\* the credential-repair flow has just saved a new API key for the current provider
KeyReplaced == llmOp.op = "handle_auth_error" /\ llmOp.model.kind = "str"

\* C18 as stated: when the API key of the current provider is replaced by the
\* credential-repair flow, the cached client is discarded and the next LLM call uses
\* a client constructed with the new key, never the client built with the old key.
C18_NoStaleClient ==
  KeyReplaced =>
    /\ _llm = 0 \/ clients[_llm].api_key = llmOp.model
    /\ ~Halted

(***************************************************************************)
(* Properties of the tool-health switch, checked under SpecSwitch.         *)
(***************************************************************************)
\* agent.tool_health_enabled is false
Disabled == ConfigGet("tool_health_enabled", JBool(TRUE)) = JBool(FALSE)

\* the tools whose suppression deadline lies ahead
DeadlineAhead ==
  {name \in DOMAIN _tool_health_suppressed_until : now < _tool_health_suppressed_until[name]}

\* C19: while agent.tool_health_enabled is false, record_tool_failure leaves the
\* failure history and the suppression map unchanged for every tool name and error
\* text, and tool_health_suppressed_tools() returns the empty set, also for tools
\* that were suppressed before the feature was disabled.
C19_Disabled ==
  [][Disabled =>
       /\ lastOp'.op = "record_tool_failure" => healthVars' = healthVars
       /\ lastOp'.op = "tool_health_suppressed_tools" =>
            (lastOp'.ret = {} /\ healthVars' = healthVars)]_vars

\* C19 happens: a tool was suppressed, the feature was disabled before its deadline,
\* and the read has returned the empty set.
C19_Witness ==
  /\ Disabled
  /\ lastOp.op = "tool_health_suppressed_tools"
  /\ lastOp.ret = {}
  /\ ToolX \in DeadlineAhead

(***************************************************************************)
(* Properties of the planner's tool catalog, checked under SpecHealth.     *)
(***************************************************************************)
\* the tools that are suppressed now: the feature is on and their deadline lies ahead
SuppressedAtThisMoment == IF _tool_health_enabled THEN DeadlineAhead ELSE {}

\* C20: the tool catalog create_plan offers to the planner LLM never names a tool
\* that is suppressed at that moment, and names the tool again in the first
\* create_plan after its suppression deadline has passed or after a success was
\* recorded for it.
C20_CatalogExclusion ==
  [][lastOp'.op = "tool_health_suppressed_tools" =>
       \A X \in RegisteredTools :
         /\ X \in SuppressedAtThisMoment => X \notin tool_catalog'
         /\ X \notin SuppressedAtThisMoment => X \in tool_catalog']_vars

\* C20 happens: X was suppressed and its deadline has passed, Y is suppressed now,
\* and the catalog names X and not Y.
C20_Witness ==
  /\ lastOp.op = "tool_health_suppressed_tools"
  /\ ToolX \in DOMAIN trigger
  /\ now >= trigger[ToolX] + suppress_s
  /\ ToolY \in DeadlineAhead
  /\ tool_catalog = {ToolX}

(***************************************************************************)
(* Properties of the list execute_plan returns, checked under Spec.        *)
(***************************************************************************)
\* a result has the fields step, tool, purpose and status, a status of success or
\* error, an output exactly when it is a success and an error exactly when it is not
WellShaped(r) ==
  /\ {s_step, s_tool, s_purpose, s_status} \subseteq DOMAIN r.val
  /\ r.val[s_status] \in {JStr(s_success), JStr(s_error)}
  /\ s_output \in DOMAIN r.val <=> r.val[s_status] = JStr(s_success)
  /\ s_error \in DOMAIN r.val <=> r.val[s_status] = JStr(s_error)

\* C21 as stated: every element of the list execute_plan returns, the empty-plan
\* sentinel and the unknown-tool results included, has the fields step, tool,
\* purpose and status with status success or error, an output field if and only if
\* status is success and an error field if and only if status is error.
C21_StepResultShape ==
  pc = "done" => \A i \in 1..Len(returned) : WellShaped(returned[i])

(***************************************************************************)
(* Properties of LLMClient.stream and UsageTracker, checked under SpecLLM. *)
(***************************************************************************)
\* C22 as stated, for a stream that is drained: for every provider a fully drained
\* stream leaves exactly one new Usage record for that call, appended to the
\* records the client had.
C22_DrainedStreamRecorded ==
  [][llmOp'.op = "stream" =>
       /\ Len(clients'[_llm].calls) = Len(clients[_llm].calls) + 1
       /\ \A i \in 1..Len(clients[_llm].calls) :
            clients'[_llm].calls[i] = clients[_llm].calls[i]]_vars

\* the sum of a field over the first n records
RECURSIVE SumUpTo(_, _, _)
SumUpTo(calls, field, n) ==
  IF n = 0 THEN 0 ELSE SumUpTo(calls, field, n - 1) + calls[n][field]

\* (input * input_price + output * output_price) / 1,000,000 USD from the price
\* table, in units of 1e-8 USD (the prices being in cents per million tokens), and 0
\* for a model that is not in the table
TableCost(model, usage) ==
  LET input == IF "input" \in DOMAIN usage.val THEN usage.val["input"] ELSE 0
      output == IF "output" \in DOMAIN usage.val THEN usage.val["output"] ELSE 0
  IN IF model.kind = "str" /\ model.val \in DOMAIN MODEL_CATALOG
     THEN input * MODEL_CATALOG[model.val].input_price
          + output * MODEL_CATALOG[model.val].output_price
     ELSE 0

\* C23: record(model, usage) appends nothing when usage is absent or empty and
\* otherwise appends exactly one record whose cost is (input * input_price + output *
\* output_price) / 1,000,000 from the price table, or 0 for a model not in the
\* table; total_cost, total_input_tokens and total_output_tokens equal the sums over
\* all appended records.
C23_UsageCost ==
  [][llmOp'.op = "record" =>
       LET usage == llmOp'.out.usage
           old == clients[1].calls
           new == clients'[1].calls
       IN /\ (usage = JNone \/ usage = JDict(EmptyDict)) => new = old
          /\ (usage # JNone /\ usage # JDict(EmptyDict)) =>
               /\ Len(new) = Len(old) + 1
               /\ \A i \in 1..Len(old) : new[i] = old[i]
               /\ new[Len(new)].cost = TableCost(llmOp'.model, usage)
          /\ total_cost(new) = SumUpTo(new, "cost", Len(new))
          /\ total_input_tokens(new) = SumUpTo(new, "input", Len(new))
          /\ total_output_tokens(new) = SumUpTo(new, "output", Len(new))]_vars

\* C23 happens: after a record of 1000 input and 500 output tokens of claude,
\* 1,000,000 input tokens of gpt-4o were recorded, which cost 2.50 USD.
C23_Witness ==
  /\ llmOp.op = "record"
  /\ llmOp.model = JStr(m_gpt4o)
  /\ Len(clients[1].calls) = 2
  /\ clients[1].calls[1].cost = 1000 * 300 + 500 * 1500
  /\ clients[1].calls[2].cost = 250000000
  /\ total_cost(clients[1].calls) = 250000000 + 1050000

(***************************************************************************)
(* More properties of the session's LLM client, checked under SpecLLM.     *)
(***************************************************************************)
\* the configuration's llm.provider
ConfiguredProvider == ConfigGet("llm.provider", JStr(p_anthropic))

\* C24 as stated: set_model(model, provider=p) with a valid p leaves the session
\* configured with llm.model = model and llm.provider = p; the provider is detected
\* from the model name only when no provider is given, and an unresolvable model
\* name then leaves the provider unchanged.
C24_ProviderSelection ==
  [][(llmOp'.op = "set_model" /\ llmOp'.out.kind = "none") =>
       /\ ConfigGet("llm.model", JNone)' = llmOp'.model
       /\ llmOp'.provider # JNone => ConfiguredProvider' = llmOp'.provider
       /\ (llmOp'.provider = JNone /\ resolve_provider(llmOp'.model.val) = JNone)
            => ConfiguredProvider' = ConfiguredProvider]_vars

(***************************************************************************)
(* Properties of one step's retry loop, checked under Spec.                *)
(***************************************************************************)
\* the parameters of the step at position pos, resolved against the results of the
\* steps before it
ResolvedFor(pos) ==
  _resolve_params(DictGet(steps[pos], "parameters", EmptyDict),
                  SubSeq(results, 1, pos - 1))

\* the log of the step in progress or just ended: attempts 1, 2, ... with one
\* 1-second sleep after each attempt that raised and is not the last, every attempt
\* given the step's parameters as resolved before the first
RetryLog ==
  \A i \in 1..Len(log) :
    /\ i % 2 = 1 =>
         /\ log[i].ev = "run"
         /\ log[i].attempt = (i + 1) \div 2
         /\ log[i].params = ResolvedFor(log[i].pos)
         /\ ~log[i].raised => i = Len(log)
    /\ i % 2 = 0 =>
         /\ log[i].ev = "sleep"
         /\ log[i].val = JInt(1)
         /\ log[i - 1].raised

\* C25: parameters are resolved once, before the first attempt, and every attempt of
\* the step receives those resolved parameters; consecutive attempts are separated
\* by exactly one 1-second sleep, with no sleep before the first attempt, after a
\* successful attempt or after the final failed attempt, so that a step with a
\* attempts sleeps a - 1 times.
C25_RetryProtocol ==
  /\ [][pc = "retry" => resolved_params' = resolved_params]_vars
  /\ [](pc \in {"retry", "loop", "done"} => RetryLog)
  /\ []((StepEnded /\ log # << >>) =>
          /\ log[Len(log)].ev = "run"
          /\ Len(SelectSeq(log, LAMBDA ev : ev.ev = "sleep")) = Len(Runs) - 1)

\* C25 happens: the second step's reference was resolved against the first step's
\* output, its first attempt raised, one sleep followed, and the second attempt got
\* the same resolved value.
C25_Witness ==
  /\ StepEnded
  /\ idx = 3
  /\ Len(log) = 3
  /\ log[1].raised /\ ~log[3].raised
  /\ log[2].ev = "sleep"
  /\ log[1].params # DictGet(steps[2], "parameters", EmptyDict)
  /\ log[3].params = log[1].params

(***************************************************************************)
(* Properties of the tool-health state, checked under SpecWindow.          *)
(***************************************************************************)
\* C26 as stated: in every reachable state, for a configuration that satisfies the
\* floors, each tool tool_health_suppressed_tools() reports has at least threshold
\* failures in its recorded history that lie within the failure window.
C26_SuppressedHaveFailures ==
  (threshold >= 1 /\ window_s >= 60 /\ suppress_s >= 60) =>
    \A X \in SuppressedNow :
      Cardinality({i \in 1..Len(DictGet(_tool_health_failures, X, << >>)) :
                     now - _tool_health_failures[X][i] <= window_s}) >= threshold

(***************************************************************************)
(* Properties of execute_plan and tool health together, checked under Spec.*)
(***************************************************************************)
\* the session runs on the defaults: agent.executor_max_retries 2, fail_threshold 2,
\* tool health enabled
UnderDefaults == config = EmptyDict

\* the step that has just ended made two attempts and both raised a transient error
TwoTransientFailures ==
  /\ StepEnded
  /\ Len(Runs) = 2
  /\ \A i \in 1..2 : Runs[i].raised /\ HasMarker(Runs[i].val.val)

LapsedWithHistory(X) ==
  /\ X \in Expired
  /\ X \in DOMAIN _tool_health_failures
  /\ Cardinality(InWindow(X)) >= threshold - 1

\* a transient failure of X is recorded by this step
TransientFailureOf(X) ==
  /\ lastOp'.op = "record_tool_failure"
  /\ lastOp'.tool = X
  /\ HasMarker(lastOp'.err)

\* the last call was a read, made past the deadline of the failure that suppressed X
ReadPastDeadline(X) ==
  /\ lastOp.op = "tool_health_suppressed_tools"
  /\ X \in DOMAIN trigger
  /\ now >= trigger[X] + suppress_s

\* C28: tool_health_suppressed_tools() changes state: a read that finds the deadline
\* of X passed deletes the whole failure history of X, failures still inside the
\* window included.  From one state in which the deadline of X has passed and enough
\* failures of X are still inside the window, one transient failure of X recorded
\* without a read suppresses X again, while the same failure recorded right after a
\* read does not suppress X when the threshold is at least 2.
C28_ReadNotPure ==
  [][\A X \in RegisteredTools :
       /\ (LapsedWithHistory(X) /\ lastOp'.op = "tool_health_suppressed_tools")
          => /\ X \notin DOMAIN _tool_health_failures'
             /\ X \notin DOMAIN _tool_health_suppressed_until'
             /\ X \notin lastOp'.ret
       /\ (LapsedWithHistory(X) /\ TransientFailureOf(X))
          => X \in SuppressedNow'
       /\ (ReadPastDeadline(X) /\ threshold >= 2 /\ TransientFailureOf(X))
          => /\ X \notin SuppressedNow'
             /\ Len(_tool_health_failures'[X]) = 1]_vars

\* two failures of X at time 0 suppressed it until 60; at 60, with no read since, a
\* third failure has just been recorded and X is suppressed again on a history of three
C28_Witness ==
  /\ lastOp.op = "record_tool_failure"
  /\ lastOp.tool = ToolX
  /\ threshold = 2
  /\ ToolX \in DOMAIN _tool_health_failures
  /\ Len(_tool_health_failures[ToolX]) = 3
  /\ _tool_health_failures[ToolX][2] + suppress_s <= now
  /\ _tool_health_failures[ToolX][3] = now
  /\ ToolX \in SuppressedNow

(***************************************************************************)
(* Tool failures the tool function swallows, checked under Spec.           *)
(***************************************************************************)
\* what a built-in HTTP tool returns after a transport error
SwallowedOutputs == {uniprot_lookup_except(e) : e \in {e_timeout}}

\* this step is an attempt whose tool.run returns a swallowed transport error
SwallowingAttempt ==
  /\ pc = "retry"
  /\ \E out \in SwallowedOutputs : log' = Append(log, RunEvent(FALSE, out))

\* C29: an attempt in which the tool function swallows a transport error and returns a
\* mapping with status "error" ends its step: the step's result has status success and
\* that mapping as output, record_tool_success drops the tool's failure history and
\* its suppression deadline, and the attempt is the last one of its step.
C29_SwallowedFailure ==
  /\ [][SwallowingAttempt =>
          /\ pc' = "loop"
          /\ idx' = idx + 1
          /\ Len(results') = Len(results) + 1
          /\ results'[Len(results')].val[s_status] = JStr(s_success)
          /\ results'[Len(results')].val[s_output] \in SwallowedOutputs
          /\ results'[Len(results')].val[s_output].val[s_status] = JStr(s_error)
          /\ lastOp'.op = "record_tool_success"
          /\ lastOp'.tool = tool_name
          /\ tool_name \notin DOMAIN _tool_health_failures'
          /\ tool_name \notin DOMAIN _tool_health_suppressed_until'
          /\ tool_name \notin SuppressedNow']_vars
  /\ [](\A i \in 1..Len(log) :
          (log[i].ev = "run" /\ ~log[i].raised /\ log[i].val \in SwallowedOutputs)
          => /\ log[i].attempt = 1 => \A j \in 1..Len(log) :
                  (log[j].ev = "run" /\ log[j].pos = log[i].pos) => j = i
             /\ \A j \in (i + 1)..Len(log) : log[j].pos # log[i].pos)

\* the first step suppressed X with two timeouts; the second step's only attempt on X
\* swallowed a timeout, and X is neither suppressed nor has a history any more
C29_Witness ==
  /\ pc = "loop"
  /\ idx = 3
  /\ Len(results) = 2
  /\ EndedTool = ToolX
  /\ DictGet(steps[1], "tool", EmptyStr) = ToolX
  /\ results[1].val[s_status] = JStr(s_error)
  /\ results[2].val[s_status] = JStr(s_success)
  /\ results[2].val[s_output] \in SwallowedOutputs
  /\ ToolX \in transientSeen
  /\ ToolX \notin DOMAIN _tool_health_failures
  /\ ToolX \notin DOMAIN _tool_health_suppressed_until
  /\ Len(SelectSeq(log, LAMBDA ev : ev.ev = "run" /\ ev.pos = 2)) = 1

(***************************************************************************)
(* The retry after a credential repair, checked under SpecLLM.             *)
(***************************************************************************)
\* C30 as stated: when create_plan failed with an authentication error and the user
\* supplied a new key, the query goes on: no exception has ended it, and the one
\* retried create_plan can be made.
C30_RepairRetry ==
  (llmOp.op = "handle_auth_error" /\ llmOp.model = JStr(k_new)) => Flowing
====
